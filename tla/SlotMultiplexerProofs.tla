----------------------- MODULE SlotMultiplexerProofs -----------------------
(***************************************************************************)
(* Proofs about SlotMultiplexer for every finite set of slots and clients  *)
(* and every limit: the reservations of each entry are counted exactly,    *)
(* never exceed max_sessions, and none is left with a client that was      *)
(* refused or whose published session is closed.                           *)
(***************************************************************************)
EXTENDS SlotMultiplexer, FiniteSetTheorems, TLAPS

(* Where a client's reservation may be, stage by stage.                    *)
PendingKeyFree(c) ==
  pc[c].create \in {"none", "select", "denied", "failed"}
  \/ pc[c].init \in {"recheck", "lost", "done", "doneDead"}

UpstreamKeyFree(c) ==
  \/ pc[c].init \in {"none", "credit", "publish", "publishDead"}
  \/ pc[c].init = "done" /\ proxy[c].state = "closed"

Stage(c) ==
  /\ pc[c].create # "ready" => pc[c].init = "none"
  /\ pc[c].init # "none" => proxy[c].upstream
  /\ PendingKeyFree(c) => byUpstream[<<c, "pending">>] = None
  /\ UpstreamKeyFree(c) => byUpstream[<<c, "upstream">>] = None

Stages == \A c \in Clients : Stage(c)

Counts == PendingExact /\ NeverCrowded

(* A respawn under way has an id left.                                     *)
GensLeft ==
  \A c \in Clients : pc[c].respawn \in {"spawn", "list", "drop"} => proxy[c].gen < MaxGens

IInv == TypeOK /\ Counts /\ Stages /\ GensLeft

---------------------------------------------------------------------------
(* Keys, and sets of them, are finite; None is no entry.                   *)
LEMMA Finite ==
  /\ IsFiniteSet(Keys)
  /\ \A e : IsFiniteSet(Bound(e)) /\ Cardinality(Bound(e)) \in Nat
  /\ None \notin Objects
  <1>1. IsFiniteSet({"pending"}) /\ IsFiniteSet({"upstream"})
    BY FS_Singleton
  <1>2. IsFiniteSet({"pending"} \cup {"upstream"})
    BY <1>1, FS_Union
  <1>3. {"pending"} \cup {"upstream"} = {"pending", "upstream"}
    OBVIOUS
  <1>4. IsFiniteSet(Keys)
    BY <1>2, <1>3, FS_Product, ConstantsAssumption DEF Keys
  <1>5. ASSUME NEW e PROVE IsFiniteSet(Bound(e)) /\ Cardinality(Bound(e)) \in Nat
    <2>1. Bound(e) \in SUBSET Keys
      BY DEF Bound
    <2>2. QED
      BY <2>1, <1>4, FS_Subset, FS_CardinalityType
  <1>6. None \notin Objects
    BY ConstantsAssumption DEF None, Objects
  <1>7. QED
    BY <1>4, <1>5, <1>6

(* The counts of an entry, whatever it is, are among those of Counts.      *)
LEMMA SessionCountNat ==
  ASSUME NEW m PROVE SessionCount(m) \in Nat
  <1>1. IsFiniteSet(1 .. MaxGens)
    BY FS_Interval, ConstantsAssumption
  <1>2. IsFiniteSet(Ids)
    BY <1>1, FS_Product, ConstantsAssumption DEF Ids
  <1>3. {i \in Ids : chosen[i[1]] = m /\ session[i] # "absent"} \in SUBSET Ids
    OBVIOUS
  <1>4. QED
    BY <1>2, <1>3, FS_Subset, FS_CardinalityType DEF SessionCount

(* Release: the key is free, and its entry counts one less.                *)
LEMMA ReleaseCounts ==
  ASSUME TypeOK, Counts, NEW k \in Keys, Release(k)
  PROVE  /\ Counts'
         /\ byUpstream' = [byUpstream EXCEPT ![k] = None]
         /\ entry' \in [Objects -> Entry]
         /\ byUpstream' \in [Keys -> Objects \cup {None}]
         /\ UNCHANGED <<slots, hooked, hooking>>
  <1> PICK e : e = byUpstream[k]
    OBVIOUS
  <1>1. /\ byUpstream' = [byUpstream EXCEPT ![k] = None]
        /\ UNCHANGED <<slots, hooked, hooking>>
        /\ byUpstream \in [Keys -> Objects \cup {None}] /\ entry \in [Objects -> Entry]
    BY DEF Release, TypeOK
  <1>2. byUpstream' \in [Keys -> Objects \cup {None}]
    BY <1>1
  <1>3. CASE e = None
    <2>1. byUpstream' = byUpstream /\ entry' = entry
      BY <1>1, <1>3 DEF Release
    <2>2. Counts'
      BY <2>1 DEF Counts, PendingExact, NeverCrowded, Bound
    <2>3. QED
      BY <2>1, <2>2, <1>1, <1>2
  <1>4. CASE e # None
    <2>1. e \in Objects /\ entry[e] \in Entry
      BY <1>1, <1>4
    <2>2. entry' = [entry EXCEPT ![e].pending = IF @ > 0 THEN @ - 1 ELSE 0]
      BY <1>4 DEF Release
    <2>3. entry[e].pending = Cardinality(Bound(e)) /\ entry[e].pending \in Nat
      BY <2>1, Finite DEF Counts, PendingExact
    <2>4. Bound(e)' = Bound(e) \ {k} /\ k \in Bound(e)
      BY <1>1, <1>4, <2>1 DEF Bound
    <2>5. Cardinality(Bound(e)') = Cardinality(Bound(e)) - 1
      BY <2>4, Finite, FS_RemoveElement
    <2>6. Cardinality(Bound(e)) > 0 /\ Cardinality(Bound(e)') \in Nat
      <3>1. IsFiniteSet(Bound(e) \ {k})
        BY Finite, FS_RemoveElement
      <3>2. Cardinality(Bound(e) \ {k}) \in Nat
        BY <3>1, FS_CardinalityType
      <3>3. QED
        BY <3>2, <2>4, <2>5, Finite
    <2>7. entry'[e].pending = entry[e].pending - 1 /\ entry'[e].mgr = entry[e].mgr
      BY <2>2, <2>3, <2>6, <2>1, <1>1 DEF Entry
    <2>8. ASSUME NEW f \in Objects, f # e
          PROVE  entry'[f] = entry[f] /\ Bound(f)' = Bound(f)
      <3>1. entry'[f] = entry[f]
        BY <2>2, <2>8, <1>1
      <3>2. f # None
        BY <2>8, Finite
      <3>3. \A j \in Keys : byUpstream'[j] = f <=> byUpstream[j] = f
        BY <1>1, <3>2, <2>8
      <3>4. QED
        BY <3>1, <3>3 DEF Bound
    <2>9. PendingExact'
      <3>1. ASSUME NEW f \in Objects PROVE entry'[f].pending = Cardinality(Bound(f)')
        BY <3>1, <2>3, <2>5, <2>7, <2>8 DEF Counts, PendingExact
      <3>2. QED
        BY <3>1 DEF PendingExact
    <2>10. NeverCrowded'
      <3>1. ASSUME NEW f \in Objects, MaxSessions > 0
            PROVE  Cardinality(Bound(f)') <= MaxSessions
        <4>1. Cardinality(Bound(f)) <= MaxSessions /\ Cardinality(Bound(f)) \in Nat
          BY <3>1, Finite DEF Counts, NeverCrowded
        <4>2. CASE f = e
          BY <4>1, <4>2, <2>5, <2>6, ConstantsAssumption
        <4>3. CASE f # e
          BY <4>1, <4>3, <2>8
        <4>4. QED
          BY <4>2, <4>3
      <3>2. QED
        BY <3>1 DEF NeverCrowded
    <2>11. entry' \in [Objects -> Entry]
      BY <2>2, <2>1, <2>3, <1>1 DEF Entry
    <2>12. QED
      BY <2>9, <2>10, <2>11, <1>1, <1>2 DEF Counts
  <1>5. QED
    BY <1>3, <1>4

(* A selection: a free key is bound to an entry below its capacity.        *)
LEMMA SelectCounts ==
  ASSUME TypeOK, Counts, NEW k \in Keys, NEW e \in Objects,
         byUpstream[k] = None, ~AtCapacity(e),
         entry' = [entry EXCEPT ![e].pending = @ + 1],
         byUpstream' = [byUpstream EXCEPT ![k] = e]
  PROVE  /\ Counts'
         /\ entry' \in [Objects -> Entry]
         /\ byUpstream' \in [Keys -> Objects \cup {None}]
  <1>1. /\ byUpstream \in [Keys -> Objects \cup {None}] /\ entry \in [Objects -> Entry]
        /\ entry[e] \in Entry /\ e # None
    BY Finite DEF TypeOK
  <1>2. Bound(e)' = Bound(e) \cup {k} /\ k \notin Bound(e)
    BY <1>1 DEF Bound
  <1>3. Cardinality(Bound(e)') = Cardinality(Bound(e)) + 1
    BY <1>2, Finite, FS_AddElement
  <1>4. entry[e].pending = Cardinality(Bound(e)) /\ entry[e].pending \in Nat
    BY Finite DEF Counts, PendingExact
  <1>5. /\ entry' \in [Objects -> Entry]
        /\ entry'[e].pending = entry[e].pending + 1
    BY <1>1, <1>4 DEF Entry
  <1>6. ASSUME NEW f \in Objects, f # e
        PROVE  entry'[f] = entry[f] /\ Bound(f)' = Bound(f)
    <2>1. entry'[f] = entry[f]
      BY <1>1, <1>6
    <2>2. f # None
      BY <1>6, Finite
    <2>3. \A j \in Keys : byUpstream'[j] = f <=> byUpstream[j] = f
      BY <1>1, <2>2, <1>6
    <2>4. QED
      BY <2>1, <2>3 DEF Bound
  <1>7. ASSUME MaxSessions > 0 PROVE Cardinality(Bound(e)') <= MaxSessions
    <2>1. ~(entry[e].pending + SessionCount(MgrOf(e)) >= MaxSessions)
      BY <1>7 DEF AtCapacity, Load
    <2>2. entry[e].pending + 1 <= MaxSessions
      BY <2>1, <1>4, SessionCountNat, ConstantsAssumption
    <2>3. QED
      BY <2>2, <1>3, <1>4
  <1>8. PendingExact'
    <2>1. ASSUME NEW f \in Objects PROVE entry'[f].pending = Cardinality(Bound(f)')
      BY <2>1, <1>3, <1>4, <1>5, <1>6 DEF Counts, PendingExact
    <2>2. QED
      BY <2>1 DEF PendingExact
  <1>9. NeverCrowded'
    <2>1. ASSUME NEW f \in Objects, MaxSessions > 0
          PROVE  Cardinality(Bound(f)') <= MaxSessions
      BY <2>1, <1>6, <1>7 DEF Counts, NeverCrowded
    <2>2. QED
      BY <2>1 DEF NeverCrowded
  <1>10. QED
    BY <1>1, <1>5, <1>8, <1>9 DEF Counts

(* Rebind: the reservation goes from a bound key to a free one.            *)
LEMMA RebindCounts ==
  ASSUME TypeOK, Counts, NEW j \in Keys, NEW k \in Keys, j # k,
         byUpstream[j] # None, byUpstream[k] = None, UNCHANGED entry,
         byUpstream' = [byUpstream EXCEPT ![j] = None, ![k] = byUpstream[j]]
  PROVE  Counts' /\ byUpstream' \in [Keys -> Objects \cup {None}]
  <1>1. /\ byUpstream \in [Keys -> Objects \cup {None}] /\ byUpstream[j] \in Objects
    BY DEF TypeOK
  <1>2. byUpstream' \in [Keys -> Objects \cup {None}]
    BY <1>1
  <1>3. ASSUME NEW f \in Objects PROVE Cardinality(Bound(f)') = Cardinality(Bound(f))
    <2>1. f # None
      BY <1>3, Finite
    <2>2. CASE byUpstream[j] = f
      <3>1. Bound(f)' = (Bound(f) \ {j}) \cup {k} /\ j \in Bound(f) /\ k \notin Bound(f)
        BY <1>1, <2>1, <2>2 DEF Bound
      <3>2. /\ IsFiniteSet(Bound(f) \ {j})
            /\ Cardinality(Bound(f) \ {j}) = Cardinality(Bound(f)) - 1
        BY <3>1, Finite, FS_RemoveElement
      <3>3. Cardinality(Bound(f)') = Cardinality(Bound(f) \ {j}) + 1
        BY <3>1, <3>2, FS_AddElement
      <3>4. QED
        BY <3>2, <3>3, Finite
    <2>3. CASE byUpstream[j] # f
      <3>1. \A i \in Keys : byUpstream'[i] = f <=> byUpstream[i] = f
        BY <1>1, <2>1, <2>3
      <3>2. QED
        BY <3>1 DEF Bound
    <2>4. QED
      BY <2>2, <2>3
  <1>4. QED
    BY <1>2, <1>3 DEF Counts, PendingExact, NeverCrowded

(* Nothing else touches the counts.                                        *)
LEMMA SameCounts ==
  ASSUME Counts, UNCHANGED byUpstream,
         \A e \in Objects : entry'[e].pending = entry[e].pending
  PROVE  Counts'
  BY DEF Counts, PendingExact, NeverCrowded, Bound

---------------------------------------------------------------------------
(* The control states of a client, updated one at a time.                  *)
LEMMA ClientUpdates ==
  ASSUME TypeOK, NEW c \in Clients
  PROVE  /\ \A from, to : /\ Create(c, from, to)
                         /\ to \in {"select", "spawn", "connect", "list", "release", "ready",
                                    "denied", "failed"}
                         => /\ pc' \in [Clients -> Threads]
                            /\ pc[c].create = from /\ pc'[c].create = to
                            /\ pc'[c].init = pc[c].init /\ pc'[c].respawn = pc[c].respawn
                            /\ \A d \in Clients : d # c => pc'[d] = pc[d]
         /\ \A from, to : /\ InitStep(c, from, to)
                         /\ to \in {"credit", "publish", "publishDead", "recheck", "lost",
                                    "done", "doneDead"}
                         => /\ pc' \in [Clients -> Threads]
                            /\ pc[c].init = from /\ pc'[c].init = to
                            /\ pc'[c].create = pc[c].create /\ pc'[c].respawn = pc[c].respawn
                            /\ \A d \in Clients : d # c => pc'[d] = pc[d]
         /\ \A from, to : /\ RespawnStep(c, from, to)
                         /\ to \in {"none", "spawn", "list", "drop", "retire"}
                         => /\ pc' \in [Clients -> Threads]
                            /\ pc[c].respawn = from /\ pc'[c].respawn = to
                            /\ \A d \in Clients : d # c => pc'[d] = pc[d]
                            /\ \A d \in Clients : /\ pc'[d].create = pc[d].create
                                                  /\ pc'[d].init = pc[d].init
  <1>1. pc \in [Clients -> Threads] /\ pc[c] \in Threads
    BY DEF TypeOK
  <1>2. ASSUME NEW from, NEW to, Create(c, from, to),
               to \in {"select", "spawn", "connect", "list", "release", "ready", "denied",
                       "failed"}
        PROVE  /\ pc' \in [Clients -> Threads]
               /\ pc[c].create = from /\ pc'[c].create = to
               /\ pc'[c].init = pc[c].init /\ pc'[c].respawn = pc[c].respawn
               /\ \A d \in Clients : d # c => pc'[d] = pc[d]
    BY <1>1, <1>2 DEF Create, Threads
  <1>3. ASSUME NEW from, NEW to, InitStep(c, from, to),
               to \in {"credit", "publish", "publishDead", "recheck", "lost", "done",
                       "doneDead"}
        PROVE  /\ pc' \in [Clients -> Threads]
               /\ pc[c].init = from /\ pc'[c].init = to
               /\ pc'[c].create = pc[c].create /\ pc'[c].respawn = pc[c].respawn
               /\ \A d \in Clients : d # c => pc'[d] = pc[d]
    BY <1>1, <1>3 DEF InitStep, Threads
  <1>4. ASSUME NEW from, NEW to, RespawnStep(c, from, to),
               to \in {"none", "spawn", "list", "drop", "retire"}
        PROVE  /\ pc' \in [Clients -> Threads]
               /\ pc[c].respawn = from /\ pc'[c].respawn = to
               /\ \A d \in Clients : d # c => pc'[d] = pc[d]
               /\ \A d \in Clients : /\ pc'[d].create = pc[d].create
                                     /\ pc'[d].init = pc[d].init
    BY <1>1, <1>4 DEF RespawnStep, Threads
  <1>5. QED
    BY <1>2, <1>3, <1>4

LEMMA ProxyUpdates ==
  ASSUME NEW p \in Proxy
  PROVE  /\ [p EXCEPT !.state = "live"] \in Proxy
         /\ [p EXCEPT !.upstream = TRUE] \in Proxy
         /\ \A b \in BOOLEAN : [p EXCEPT !.listed = b] \in Proxy
         /\ \A b \in BOOLEAN :
              LET q == [p EXCEPT !.state = "closed", !.listed = b]
              IN q \in Proxy /\ q.state = "closed" /\ q.upstream = p.upstream
         /\ p.gen + 1 <= MaxGens =>
              LET q == [p EXCEPT !.state = "live", !.gen = p.gen + 1]
              IN q \in Proxy /\ q.state = "live" /\ q.upstream = p.upstream
         /\ p.listed \in BOOLEAN /\ p.upstream \in BOOLEAN /\ p.gen \in 1 .. MaxGens
  <1>1. p.listed \in BOOLEAN /\ p.upstream \in BOOLEAN /\ p.gen \in 1 .. MaxGens
    BY DEF Proxy
  <1>2. [p EXCEPT !.state = "live"] \in Proxy /\ [p EXCEPT !.upstream = TRUE] \in Proxy
    BY DEF Proxy
  <1>3. \A b \in BOOLEAN : [p EXCEPT !.listed = b] \in Proxy
    BY DEF Proxy
  <1>4. ASSUME NEW b \in BOOLEAN
        PROVE  LET q == [p EXCEPT !.state = "closed", !.listed = b]
               IN q \in Proxy /\ q.state = "closed" /\ q.upstream = p.upstream
    BY <1>4 DEF Proxy
  <1>5. ASSUME p.gen + 1 <= MaxGens
        PROVE  LET q == [p EXCEPT !.state = "live", !.gen = p.gen + 1]
               IN q \in Proxy /\ q.state = "live" /\ q.upstream = p.upstream
    <2>1. p.gen + 1 \in 1 .. MaxGens
      BY <1>1, <1>5, ConstantsAssumption
    <2>2. QED
      BY <2>1 DEF Proxy
  <1>6. QED
    BY <1>1, <1>2, <1>3, <1>4, <1>5

(* The part of a client's stage that an action leaves alone.               *)
LEMMA StageFrame ==
  ASSUME NEW d \in Clients, Stage(d),
         pc'[d].create = pc[d].create, pc'[d].init = pc[d].init,
         proxy'[d].state = proxy[d].state, proxy'[d].upstream = proxy[d].upstream,
         byUpstream'[<<d, "pending">>] = byUpstream[<<d, "pending">>],
         byUpstream'[<<d, "upstream">>] = byUpstream[<<d, "upstream">>]
  PROVE  Stage(d)'
  BY DEF Stage, PendingKeyFree, UpstreamKeyFree

LEMMA KeysOf ==
  ASSUME NEW c \in Clients
  PROVE  /\ <<c, "pending">> \in Keys /\ <<c, "upstream">> \in Keys
         /\ <<c, "pending">> # <<c, "upstream">>
  BY DEF Keys

(* A close: whatever the session's stage, the tail frees its upstream key. *)
LEMMA Closes ==
  ASSUME TypeOK, Counts, NEW c \in Clients, NEW ids, CloseWith(c, ids)
  PROVE  /\ Counts'
         /\ entry' \in [Objects -> Entry]
         /\ byUpstream' \in [Keys -> Objects \cup {None}]
         /\ UNCHANGED <<slots, hooked, hooking>>
         /\ proxy' \in [Clients -> Proxy]
         /\ byDownstream' = byDownstream \ ids
         /\ proxy'[c].state = "closed" /\ proxy'[c].upstream = proxy[c].upstream
         /\ proxy'[c].gen = proxy[c].gen
         /\ \A d \in Clients : d # c => proxy'[d] = proxy[d]
         /\ proxy[c].upstream => byUpstream'[<<c, "upstream">>] = None
         /\ \A k \in Keys : k # <<c, "upstream">> \/ byUpstream[k] = None
                           => byUpstream'[k] = byUpstream[k]
  <1>1. /\ proxy \in [Clients -> Proxy] /\ proxy[c] \in Proxy
        /\ byUpstream \in [Keys -> Objects \cup {None}] /\ entry \in [Objects -> Entry]
    BY DEF TypeOK
  <1>2. /\ byDownstream' = byDownstream \ ids
        /\ proxy' = [proxy EXCEPT ![c] = [proxy[c] EXCEPT !.state = "closed",
             !.listed = proxy[c].listed /\ ~proxy[c].upstream]]
    BY DEF CloseWith
  <1>3. [proxy[c] EXCEPT !.state = "closed",
                         !.listed = proxy[c].listed /\ ~proxy[c].upstream] \in Proxy
    BY <1>1, ProxyUpdates
  <1>4. /\ proxy' \in [Clients -> Proxy]
        /\ \A d \in Clients : d # c => proxy'[d] = proxy[d]
    BY <1>1, <1>2, <1>3
  <1>5. /\ proxy'[c].state = "closed" /\ proxy'[c].upstream = proxy[c].upstream
        /\ proxy'[c].gen = proxy[c].gen
    <2>1. PICK b \in BOOLEAN : b = (proxy[c].listed /\ ~proxy[c].upstream)
      OBVIOUS
    <2>2. proxy'[c] = [proxy[c] EXCEPT !.state = "closed", !.listed = b]
      BY <1>1, <1>2, <2>1
    <2>3. QED
      BY <1>1, <2>2 DEF Proxy
  <1>6. CASE proxy[c].upstream
    <2>1. Release(<<c, "upstream">>)
      BY <1>6 DEF CloseWith
    <2>2. /\ Counts'
          /\ byUpstream' = [byUpstream EXCEPT ![<<c, "upstream">>] = None]
          /\ entry' \in [Objects -> Entry]
          /\ byUpstream' \in [Keys -> Objects \cup {None}]
          /\ UNCHANGED <<slots, hooked, hooking>>
      BY <2>1, ReleaseCounts, KeysOf
    <2>3. /\ byUpstream'[<<c, "upstream">>] = None
          /\ \A k \in Keys : k # <<c, "upstream">> \/ byUpstream[k] = None
                            => byUpstream'[k] = byUpstream[k]
      BY <2>2, <1>1, KeysOf
    <2>4. QED
      BY <2>2, <2>3, <1>2, <1>4, <1>5
  <1>7. CASE ~proxy[c].upstream
    <2>1. UNCHANGED <<slots, entry, byUpstream, hooked, hooking>>
      BY <1>7 DEF CloseWith, muxVars
    <2>2. Counts'
      BY <2>1, SameCounts
    <2>3. QED
      BY <2>1, <2>2, <1>1, <1>2, <1>4, <1>5, <1>7
  <1>8. QED
    BY <1>6, <1>7

(* ... so the stage of every client survives a close.                      *)
LEMMA CloseKeepsStages ==
  ASSUME IInv, NEW c \in Clients, NEW ids, CloseWith(c, ids),
         \A d \in Clients : pc'[d].create = pc[d].create,
         \A d \in Clients : d # c => pc'[d].init = pc[d].init,
         pc'[c].init = pc[c].init \/ (pc[c].init = "lost" /\ pc'[c].init = "done")
  PROVE  Stages'
  <1>1. TypeOK /\ Counts /\ Stage(c)
    BY DEF IInv, Stages
  <1>2. /\ proxy'[c].state = "closed" /\ proxy'[c].upstream = proxy[c].upstream
        /\ \A d \in Clients : d # c => proxy'[d] = proxy[d]
        /\ proxy[c].upstream => byUpstream'[<<c, "upstream">>] = None
        /\ \A k \in Keys : k # <<c, "upstream">> \/ byUpstream[k] = None
                          => byUpstream'[k] = byUpstream[k]
    BY <1>1, Closes
  <1>3. ASSUME NEW d \in Clients, d # c PROVE Stage(d)'
    <2>1. /\ byUpstream'[<<d, "pending">>] = byUpstream[<<d, "pending">>]
          /\ byUpstream'[<<d, "upstream">>] = byUpstream[<<d, "upstream">>]
      <3>1. <<d, "pending">> # <<c, "upstream">> /\ <<d, "upstream">> # <<c, "upstream">>
        BY <1>3
      <3>2. QED
        BY <3>1, <1>2, KeysOf
    <2>2. Stage(d)
      BY DEF IInv, Stages
    <2>3. QED
      BY <2>1, <2>2, <1>2, <1>3, StageFrame
  <1>4. Stage(c)'
    <2>1. byUpstream'[<<c, "pending">>] = byUpstream[<<c, "pending">>]
      BY <1>2, KeysOf
    <2>2. /\ pc'[c].create # "ready" => pc'[c].init = "none"
          /\ pc'[c].init # "none" => proxy'[c].upstream
          /\ PendingKeyFree(c)' => byUpstream'[<<c, "pending">>] = None
      BY <2>1, <1>1, <1>2 DEF Stage, PendingKeyFree
    <2>3. CASE proxy[c].upstream
      BY <2>2, <2>3, <1>2 DEF Stage
    <2>4. CASE ~proxy[c].upstream
      <3>1. pc[c].init = "none" /\ byUpstream[<<c, "upstream">>] = None
        BY <2>4, <1>1 DEF Stage, UpstreamKeyFree
      <3>2. byUpstream'[<<c, "upstream">>] = None
        BY <3>1, <1>2, KeysOf
      <3>3. QED
        BY <3>2, <2>2 DEF Stage
    <2>5. QED
      BY <2>3, <2>4
  <1>5. QED
    BY <1>3, <1>4 DEF Stages

(* One client moves: what is left to show is its own stage.                *)
LEMMA Others ==
  ASSUME IInv, NEW c \in Clients,
         \A d \in Clients : d # c => pc'[d] = pc[d] /\ proxy'[d] = proxy[d],
         \A k \in Keys : k[1] # c => byUpstream'[k] = byUpstream[k],
         Stage(c)',
         pc'[c].respawn \in {"spawn", "list", "drop"} => proxy'[c].gen < MaxGens
  PROVE  Stages' /\ GensLeft'
  <1>1. ASSUME NEW d \in Clients, d # c PROVE Stage(d)'
    <2>1. <<d, "pending">> \in Keys /\ <<d, "upstream">> \in Keys
      BY KeysOf
    <2>2. /\ byUpstream'[<<d, "pending">>] = byUpstream[<<d, "pending">>]
          /\ byUpstream'[<<d, "upstream">>] = byUpstream[<<d, "upstream">>]
      BY <2>1, <1>1
    <2>3. Stage(d)
      BY DEF IInv, Stages
    <2>4. QED
      BY <1>1, <2>2, <2>3, StageFrame
  <1>2. GensLeft'
    BY DEF IInv, GensLeft
  <1>3. QED
    BY <1>1, <1>2 DEF Stages

(* No client moves.                                                        *)
LEMMA Idle ==
  ASSUME IInv, UNCHANGED <<pc, proxy, byUpstream>>,
         \A e \in Objects : entry'[e].pending = entry[e].pending
  PROVE  Counts' /\ Stages' /\ GensLeft'
  <1>1. Counts'
    BY SameCounts DEF IInv
  <1>2. Stages'
    BY DEF IInv, Stages, Stage, PendingKeyFree, UpstreamKeyFree
  <1>3. GensLeft'
    BY DEF IInv, GensLeft
  <1>4. QED
    BY <1>1, <1>2, <1>3

(* The ids of a client.                                                    *)
LEMMA IdsOf ==
  ASSUME TypeOK, GensLeft, NEW c \in Clients
  PROVE  /\ <<c, 1>> \in Ids /\ Current(c) \in Ids
         /\ pc[c].respawn \in {"spawn", "list", "drop"} => Newer(c) \in Ids
         /\ proxy[c].gen < MaxGens => Newer(c) \in Ids
  <1>1. proxy[c].gen \in 1 .. MaxGens
    BY ProxyUpdates DEF TypeOK
  <1>2. proxy[c].gen < MaxGens => proxy[c].gen + 1 \in 1 .. MaxGens
    BY <1>1, ConstantsAssumption
  <1>3. QED
    BY <1>1, <1>2, ConstantsAssumption DEF Ids, Current, Newer, GensLeft

---------------------------------------------------------------------------
THEOREM Initially == Init => IInv
  <1> SUFFICES ASSUME NEW up \in SUBSET Slots, InitWith(up) PROVE IInv
    BY DEF Init
  <1>1. TypeOK
    <2>1. ASSUME NEW e \in Objects PROVE [mgr |-> e[2], pending |-> 0] \in Entry
      BY <2>1 DEF Objects, Entry
    <2>2. entry \in [Objects -> Entry]
      BY <2>1 DEF InitWith
    <2>3. hooked \subseteq Objects /\ hooking \subseteq Objects
      BY ConstantsAssumption DEF InitWith, Objects
    <2>4. proxy \in [Clients -> Proxy] /\ pc \in [Clients -> Threads]
      BY ConstantsAssumption DEF InitWith, Proxy, Threads
    <2>5. QED
      BY <2>2, <2>3, <2>4, ConstantsAssumption DEF InitWith, TypeOK
  <1>2. Counts
    <2>1. ASSUME NEW e \in Objects
          PROVE  entry[e].pending = 0 /\ Cardinality(Bound(e)) = 0
      <3>1. Bound(e) = {}
        BY <2>1, Finite DEF Bound, InitWith
      <3>2. QED
        BY <3>1, <2>1, FS_EmptySet DEF InitWith
    <2>2. QED
      BY <2>1, ConstantsAssumption DEF Counts, PendingExact, NeverCrowded
  <1>3. Stages
    BY DEF InitWith, Stages, Stage, PendingKeyFree, UpstreamKeyFree, Keys
  <1>4. GensLeft
    BY DEF InitWith, GensLeft
  <1>5. QED
    BY <1>1, <1>2, <1>3, <1>4 DEF IInv

LEMMA MemberStopsKeeps ==
  ASSUME IInv, NEW s \in Slots, MemberStops(s)
  PROVE  IInv'
  <1>1. TypeOK
    BY DEF IInv
  <1>2. UNCHANGED <<pc, proxy, byUpstream, entry>>
    BY DEF MemberStops, memberVars, muxVars, sessVars, proxyVars
  <1>3. TypeOK'
    BY <1>1, ConstantsAssumption DEF MemberStops, Restarts, TypeOK, memberVars, muxVars, sessVars, proxyVars
  <1>4. QED
    BY <1>2, <1>3, Idle DEF IInv

LEMMA MemberStartsKeeps ==
  ASSUME IInv, NEW s \in Slots, MemberStarts(s)
  PROVE  IInv'
  <1>1. TypeOK
    BY DEF IInv
  <1>2. UNCHANGED <<pc, proxy, byUpstream, entry>>
    BY DEF MemberStarts, memberVars, muxVars, sessVars, proxyVars
  <1>3. TypeOK'
    BY <1>1, ConstantsAssumption DEF MemberStarts, Restarts, TypeOK, memberVars, muxVars, sessVars, proxyVars
  <1>4. QED
    BY <1>2, <1>3, Idle DEF IInv

LEMMA HandleStoppedKeeps ==
  ASSUME IInv, NEW s \in Slots, HandleStopped(s)
  PROVE  IInv'
  <1>1. TypeOK
    BY DEF IInv
  <1>2. UNCHANGED <<pc, proxy, byUpstream, entry>>
    BY DEF HandleStopped, memberVars, muxVars, sessVars, proxyVars
  <1>3. TypeOK'
    BY <1>1, ConstantsAssumption DEF HandleStopped, TypeOK, memberVars, muxVars, sessVars, proxyVars
  <1>4. QED
    BY <1>2, <1>3, Idle DEF IInv

LEMMA ApplyRemovalHookKeeps ==
  ASSUME IInv, ApplyRemovalHook
  PROVE  IInv'
  <1>1. TypeOK
    BY DEF IInv
  <1>2. UNCHANGED <<pc, proxy, byUpstream, entry>>
    BY DEF ApplyRemovalHook, memberVars, muxVars, sessVars, proxyVars
  <1>3. TypeOK'
    BY <1>1, ConstantsAssumption DEF ApplyRemovalHook, TypeOK, memberVars, muxVars, sessVars, proxyVars
  <1>4. QED
    BY <1>2, <1>3, Idle DEF IInv

LEMMA ReapKeeps ==
  ASSUME IInv, NEW i \in Ids, Reap(i)
  PROVE  IInv'
  <1>1. TypeOK
    BY DEF IInv
  <1>2. UNCHANGED <<pc, proxy, byUpstream, entry>>
    BY DEF Reap, memberVars, muxVars, sessVars, proxyVars
  <1>3. TypeOK'
    BY <1>1, ConstantsAssumption DEF Reap, TypeOK, memberVars, muxVars, sessVars, proxyVars
  <1>4. QED
    BY <1>2, <1>3, Idle DEF IInv

LEMMA HandleStartedKeeps ==
  ASSUME IInv, NEW s \in Slots, HandleStarted(s)
  PROVE  IInv'
  <1>1. TypeOK
    BY DEF IInv
  <1>2. /\ handled' \in [Slots -> 1 .. MaxStarts] /\ listening' \in [Slots -> BOOLEAN]
        /\ entry \in [Objects -> Entry]
    BY <1>1 DEF HandleStarted, TypeOK
  <1>3. slots' \in [Slots -> 0 .. MaxStarts]
    BY <1>1, <1>2, ConstantsAssumption DEF HandleStarted, TypeOK
  <1>4. hooking' \subseteq Objects
    BY <1>2 DEF HandleStarted, Objects
  <1>5. ASSUME NEW e \in Objects
        PROVE  entry'[e] \in Entry /\ entry'[e].pending = entry[e].pending
    <2>1. handled'[e[1]] \in 1 .. MaxStarts /\ entry[e] \in Entry
      BY <1>2, <1>5 DEF Objects
    <2>2. entry'[e] = [entry[e] EXCEPT !.mgr = handled'[e[1]]] \/ entry'[e] = entry[e]
      BY <1>5 DEF HandleStarted
    <2>3. QED
      BY <2>1, <2>2 DEF Entry
  <1>6. entry' \in [Objects -> Entry]
    <2>1. entry' = [e \in Objects |-> entry'[e]]
      BY DEF HandleStarted
    <2>2. QED
      BY <2>1, <1>5
  <1>7. UNCHANGED <<running, started, byUpstream, hooked, chosen, session, removal, proxy,
                    byDownstream, pc>>
    BY DEF HandleStarted, sessVars, proxyVars
  <1>8. TypeOK'
    BY <1>1, <1>2, <1>3, <1>4, <1>6, <1>7 DEF TypeOK
  <1>9. QED
    BY <1>5, <1>7, <1>8, Idle DEF IInv

LEMMA AdmitKeeps ==
  ASSUME IInv, NEW c \in Clients, Admit(c)
  PROVE  IInv'
  <1>1. TypeOK /\ Counts /\ Stage(c) /\ GensLeft
    BY DEF IInv, Stages
  <1>2. UNCHANGED <<running, started, handled, listening, slots, entry, byUpstream, hooked,
                    hooking, chosen>>
    BY DEF Admit, memberVars, muxVars
  <1>3. /\ pc' \in [Clients -> Threads] /\ pc[c].create = "none" /\ pc'[c].create = "select"
        /\ pc'[c].init = pc[c].init /\ pc'[c].respawn = pc[c].respawn
        /\ \A d \in Clients : d # c => pc'[d] = pc[d]
    BY <1>1, ClientUpdates DEF Admit
  <1>4. UNCHANGED proxy
    BY DEF Admit, proxyVars
  <1>5. Stage(c)'
    BY <1>1, <1>2, <1>3, <1>4 DEF Stage, PendingKeyFree, UpstreamKeyFree
  <1>6. Stages' /\ GensLeft'
    BY <1>1, <1>2, <1>3, <1>4, <1>5, Others DEF GensLeft
  <1>7. TypeOK'
    BY <1>1, <1>2, <1>3, <1>4, IdsOf DEF Admit, TypeOK, sessVars, proxyVars
  <1>8. QED
    BY <1>1, <1>2, <1>6, <1>7, SameCounts DEF IInv

LEMMA DenyKeeps ==
  ASSUME IInv, NEW c \in Clients, Deny(c)
  PROVE  IInv'
  <1>1. TypeOK /\ Counts /\ Stage(c) /\ GensLeft
    BY DEF IInv, Stages
  <1>2. UNCHANGED <<running, started, handled, listening, slots, entry, byUpstream, hooked,
                    hooking, chosen>>
    BY DEF Deny, memberVars, muxVars
  <1>3. /\ pc' \in [Clients -> Threads] /\ pc[c].create = "none" /\ pc'[c].create = "denied"
        /\ pc'[c].init = pc[c].init /\ pc'[c].respawn = pc[c].respawn
        /\ \A d \in Clients : d # c => pc'[d] = pc[d]
    BY <1>1, ClientUpdates DEF Deny
  <1>4. UNCHANGED proxy
    BY DEF Deny, proxyVars
  <1>5. Stage(c)'
    BY <1>1, <1>2, <1>3, <1>4 DEF Stage, PendingKeyFree, UpstreamKeyFree
  <1>6. Stages' /\ GensLeft'
    BY <1>1, <1>2, <1>3, <1>4, <1>5, Others DEF GensLeft
  <1>7. TypeOK'
    BY <1>1, <1>2, <1>3, <1>4, IdsOf DEF Deny, TypeOK, sessVars, proxyVars
  <1>8. QED
    BY <1>1, <1>2, <1>6, <1>7, SameCounts DEF IInv

LEMMA SelectsNoneKeeps ==
  ASSUME IInv, NEW c \in Clients, SelectsNone(c)
  PROVE  IInv'
  <1>1. TypeOK /\ Counts /\ Stage(c) /\ GensLeft
    BY DEF IInv, Stages
  <1>2. UNCHANGED <<running, started, handled, listening, slots, entry, byUpstream, hooked,
                    hooking, chosen>>
    BY DEF SelectsNone, memberVars, muxVars
  <1>3. /\ pc' \in [Clients -> Threads] /\ pc[c].create = "select" /\ pc'[c].create = "denied"
        /\ pc'[c].init = pc[c].init /\ pc'[c].respawn = pc[c].respawn
        /\ \A d \in Clients : d # c => pc'[d] = pc[d]
    BY <1>1, ClientUpdates DEF SelectsNone
  <1>4. UNCHANGED proxy
    BY DEF SelectsNone, proxyVars
  <1>5. Stage(c)'
    BY <1>1, <1>2, <1>3, <1>4 DEF Stage, PendingKeyFree, UpstreamKeyFree
  <1>6. Stages' /\ GensLeft'
    BY <1>1, <1>2, <1>3, <1>4, <1>5, Others DEF GensLeft
  <1>7. TypeOK'
    BY <1>1, <1>2, <1>3, <1>4, IdsOf DEF SelectsNone, TypeOK, sessVars, proxyVars
  <1>8. QED
    BY <1>1, <1>2, <1>6, <1>7, SameCounts DEF IInv

LEMMA ReserveKeeps ==
  ASSUME IInv, NEW c \in Clients, Reserve(c)
  PROVE  IInv'
  <1>1. TypeOK /\ Counts /\ Stage(c) /\ GensLeft
    BY DEF IInv, Stages
  <1>2. UNCHANGED <<running, started, handled, listening, slots, entry, byUpstream, hooked,
                    hooking, chosen>>
    BY DEF Reserve, memberVars, muxVars
  <1>3. /\ pc' \in [Clients -> Threads] /\ pc[c].create = "spawn" /\ pc'[c].create = "connect"
        /\ pc'[c].init = pc[c].init /\ pc'[c].respawn = pc[c].respawn
        /\ \A d \in Clients : d # c => pc'[d] = pc[d]
    BY <1>1, ClientUpdates DEF Reserve
  <1>4. UNCHANGED proxy
    BY DEF Reserve, proxyVars
  <1>5. Stage(c)'
    BY <1>1, <1>2, <1>3, <1>4 DEF Stage, PendingKeyFree, UpstreamKeyFree
  <1>6. Stages' /\ GensLeft'
    BY <1>1, <1>2, <1>3, <1>4, <1>5, Others DEF GensLeft
  <1>7. TypeOK'
    BY <1>1, <1>2, <1>3, <1>4, IdsOf DEF Reserve, TypeOK, sessVars, proxyVars
  <1>8. QED
    BY <1>1, <1>2, <1>6, <1>7, SameCounts DEF IInv

LEMMA RefusedKeeps ==
  ASSUME IInv, NEW c \in Clients, Refused(c)
  PROVE  IInv'
  <1>1. TypeOK /\ Counts /\ Stage(c) /\ GensLeft
    BY DEF IInv, Stages
  <1>2. UNCHANGED <<running, started, handled, listening, slots, entry, byUpstream, hooked,
                    hooking, chosen>>
    BY DEF Refused, memberVars, muxVars
  <1>3. /\ pc' \in [Clients -> Threads] /\ pc[c].create = "spawn" /\ pc'[c].create = "release"
        /\ pc'[c].init = pc[c].init /\ pc'[c].respawn = pc[c].respawn
        /\ \A d \in Clients : d # c => pc'[d] = pc[d]
    BY <1>1, ClientUpdates DEF Refused
  <1>4. UNCHANGED proxy
    BY DEF Refused, proxyVars
  <1>5. Stage(c)'
    BY <1>1, <1>2, <1>3, <1>4 DEF Stage, PendingKeyFree, UpstreamKeyFree
  <1>6. Stages' /\ GensLeft'
    BY <1>1, <1>2, <1>3, <1>4, <1>5, Others DEF GensLeft
  <1>7. TypeOK'
    BY <1>1, <1>2, <1>3, <1>4, IdsOf DEF Refused, TypeOK, sessVars, proxyVars
  <1>8. QED
    BY <1>1, <1>2, <1>6, <1>7, SameCounts DEF IInv

LEMMA ConnectFailsKeeps ==
  ASSUME IInv, NEW c \in Clients, ConnectFails(c)
  PROVE  IInv'
  <1>1. TypeOK /\ Counts /\ Stage(c) /\ GensLeft
    BY DEF IInv, Stages
  <1>2. UNCHANGED <<running, started, handled, listening, slots, entry, byUpstream, hooked,
                    hooking, chosen>>
    BY DEF ConnectFails, memberVars, muxVars
  <1>3. /\ pc' \in [Clients -> Threads] /\ pc[c].create = "connect" /\ pc'[c].create = "release"
        /\ pc'[c].init = pc[c].init /\ pc'[c].respawn = pc[c].respawn
        /\ \A d \in Clients : d # c => pc'[d] = pc[d]
    BY <1>1, ClientUpdates DEF ConnectFails
  <1>4. UNCHANGED proxy
    BY DEF ConnectFails, proxyVars
  <1>5. Stage(c)'
    BY <1>1, <1>2, <1>3, <1>4 DEF Stage, PendingKeyFree, UpstreamKeyFree
  <1>6. Stages' /\ GensLeft'
    BY <1>1, <1>2, <1>3, <1>4, <1>5, Others DEF GensLeft
  <1>7. TypeOK'
    BY <1>1, <1>2, <1>3, <1>4, IdsOf DEF ConnectFails, TypeOK, sessVars, proxyVars
  <1>8. QED
    BY <1>1, <1>2, <1>6, <1>7, SameCounts DEF IInv

LEMMA ListedKeeps ==
  ASSUME IInv, NEW c \in Clients, Listed(c)
  PROVE  IInv'
  <1>1. TypeOK /\ Counts /\ Stage(c) /\ GensLeft
    BY DEF IInv, Stages
  <1>2. UNCHANGED <<running, started, handled, listening, slots, entry, byUpstream, hooked,
                    hooking, chosen>>
    BY DEF Listed, memberVars, muxVars
  <1>3. /\ pc' \in [Clients -> Threads] /\ pc[c].create = "list" /\ pc'[c].create = "ready"
        /\ pc'[c].init = pc[c].init /\ pc'[c].respawn = pc[c].respawn
        /\ \A d \in Clients : d # c => pc'[d] = pc[d]
    BY <1>1, ClientUpdates DEF Listed
  <1>4. UNCHANGED proxy
    BY DEF Listed, proxyVars
  <1>5. Stage(c)'
    BY <1>1, <1>2, <1>3, <1>4 DEF Stage, PendingKeyFree, UpstreamKeyFree
  <1>6. Stages' /\ GensLeft'
    BY <1>1, <1>2, <1>3, <1>4, <1>5, Others DEF GensLeft
  <1>7. TypeOK'
    BY <1>1, <1>2, <1>3, <1>4, IdsOf DEF Listed, TypeOK, sessVars, proxyVars
  <1>8. QED
    BY <1>1, <1>2, <1>6, <1>7, SameCounts DEF IInv

LEMMA ConnectedKeeps ==
  ASSUME IInv, NEW c \in Clients, Connected(c)
  PROVE  IInv'
  <1>1. TypeOK /\ Counts /\ Stage(c) /\ GensLeft
    BY DEF IInv, Stages
  <1>2. UNCHANGED <<running, started, handled, listening, slots, entry, byUpstream, hooked,
                    hooking, chosen>>
    BY DEF Connected, memberVars, muxVars
  <1>3. /\ pc' \in [Clients -> Threads] /\ pc[c].create = "connect" /\ pc'[c].create = "list"
        /\ pc'[c].init = pc[c].init /\ pc'[c].respawn = pc[c].respawn
        /\ \A d \in Clients : d # c => pc'[d] = pc[d]
    BY <1>1, ClientUpdates DEF Connected
  <1>4. proxy' = [proxy EXCEPT ![c].state = "live"] /\ proxy \in [Clients -> Proxy]
    BY <1>1 DEF Connected, TypeOK
  <1>5. /\ proxy' \in [Clients -> Proxy] /\ proxy'[c].state = "live"
        /\ proxy'[c].upstream = proxy[c].upstream /\ proxy'[c].gen = proxy[c].gen
        /\ \A d \in Clients : d # c => proxy'[d] = proxy[d]
    BY <1>4 DEF Proxy
  <1>6. Stage(c)'
    BY <1>1, <1>2, <1>3, <1>5 DEF Stage, PendingKeyFree, UpstreamKeyFree
  <1>7. Stages' /\ GensLeft'
    BY <1>1, <1>2, <1>3, <1>5, <1>6, Others DEF GensLeft
  <1>8. TypeOK'
    BY <1>1, <1>2, <1>3, <1>5, IdsOf DEF Connected, TypeOK
  <1>9. QED
    BY <1>1, <1>2, <1>7, <1>8, SameCounts DEF IInv

LEMMA SelectForNewSessionKeeps ==
  ASSUME IInv, NEW c \in Clients, SelectForNewSession(c)
  PROVE  IInv'
  <1>1. TypeOK /\ Counts /\ Stage(c) /\ GensLeft
    BY DEF IInv, Stages
  <1>2. PICK e \in Objects :
          /\ ~AtCapacity(e) /\ MgrOf(e) \in Objects
          /\ entry' = [entry EXCEPT ![e].pending = @ + 1]
          /\ byUpstream' = [byUpstream EXCEPT ![<<c, "pending">>] = e]
          /\ chosen' = [chosen EXCEPT ![c] = MgrOf(e)]
    <2>1. PICK verdict \in SUBSET Slots, e \in Entries :
            /\ LeastLoaded(e, Routable(verdict))
            /\ entry' = [entry EXCEPT ![e].pending = @ + 1]
            /\ byUpstream' = [byUpstream EXCEPT ![<<c, "pending">>] = e]
            /\ chosen' = [chosen EXCEPT ![c] = MgrOf(e)]
      BY DEF SelectForNewSession
    <2>2. e \in Routable(verdict)
      BY <2>1 DEF LeastLoaded
    <2>3. e \in Objects /\ ~AtCapacity(e)
      BY <1>1, <2>2 DEF Routable, Entries, Objects, TypeOK
    <2>4. MgrOf(e) \in Objects
      BY <1>1, <2>3 DEF MgrOf, Objects, TypeOK, Entry
    <2>5. QED
      BY <2>1, <2>3, <2>4
  <1>3. /\ pc' \in [Clients -> Threads] /\ pc[c].create = "select" /\ pc'[c].create = "spawn"
        /\ pc'[c].init = pc[c].init /\ pc'[c].respawn = pc[c].respawn
        /\ \A d \in Clients : d # c => pc'[d] = pc[d]
    BY <1>1, ClientUpdates DEF SelectForNewSession
  <1>4. UNCHANGED <<running, started, handled, listening, slots, hooked, hooking, session,
                    removal, proxy, byDownstream>>
    BY DEF SelectForNewSession, memberVars, sessVars, proxyVars
  <1>5. byUpstream[<<c, "pending">>] = None
    BY <1>1, <1>3 DEF Stage, PendingKeyFree
  <1>6. /\ Counts' /\ entry' \in [Objects -> Entry]
        /\ byUpstream' \in [Keys -> Objects \cup {None}]
    BY <1>1, <1>2, <1>5, KeysOf, SelectCounts
  <1>7. /\ byUpstream'[<<c, "upstream">>] = byUpstream[<<c, "upstream">>]
        /\ \A k \in Keys : k[1] # c => byUpstream'[k] = byUpstream[k]
    BY <1>1, <1>2, KeysOf DEF TypeOK
  <1>8. Stage(c)'
    BY <1>1, <1>3, <1>4, <1>7 DEF Stage, PendingKeyFree, UpstreamKeyFree
  <1>9. Stages' /\ GensLeft'
    BY <1>1, <1>3, <1>4, <1>7, <1>8, Others DEF GensLeft
  <1>10. TypeOK'
    BY <1>1, <1>2, <1>3, <1>4, <1>6 DEF TypeOK
  <1>11. QED
    BY <1>6, <1>9, <1>10 DEF IInv

LEMMA ReleasePendingKeeps ==
  ASSUME IInv, NEW c \in Clients, ReleasePending(c)
  PROVE  IInv'
  <1>1. TypeOK /\ Counts /\ Stage(c) /\ GensLeft
    BY DEF IInv, Stages
  <1>2. /\ pc' \in [Clients -> Threads] /\ pc[c].create = "release" /\ pc'[c].create = "failed"
        /\ pc'[c].init = pc[c].init /\ pc'[c].respawn = pc[c].respawn
        /\ \A d \in Clients : d # c => pc'[d] = pc[d]
    BY <1>1, ClientUpdates DEF ReleasePending
  <1>3. /\ Counts' /\ byUpstream' = [byUpstream EXCEPT ![<<c, "pending">>] = None]
        /\ entry' \in [Objects -> Entry] /\ byUpstream' \in [Keys -> Objects \cup {None}]
        /\ UNCHANGED <<slots, hooked, hooking>>
    BY <1>1, KeysOf, ReleaseCounts DEF ReleasePending
  <1>4. UNCHANGED <<running, started, handled, listening, chosen, session, removal, proxy,
                    byDownstream>>
    BY DEF ReleasePending, memberVars, sessVars, proxyVars
  <1>5. /\ byUpstream'[<<c, "upstream">>] = byUpstream[<<c, "upstream">>]
        /\ byUpstream'[<<c, "pending">>] = None
        /\ \A k \in Keys : k[1] # c => byUpstream'[k] = byUpstream[k]
    BY <1>1, <1>3, KeysOf DEF TypeOK
  <1>6. Stage(c)'
    BY <1>1, <1>2, <1>4, <1>5 DEF Stage, PendingKeyFree, UpstreamKeyFree
  <1>7. Stages' /\ GensLeft'
    BY <1>1, <1>2, <1>4, <1>5, <1>6, Others DEF GensLeft
  <1>8. TypeOK'
    BY <1>1, <1>2, <1>3, <1>4 DEF TypeOK
  <1>9. QED
    BY <1>3, <1>7, <1>8 DEF IInv

---------------------------------------------------------------------------
(* A step of one client that leaves the books of the multiplexer alone.    *)
LEMMA BooksUntouched ==
  ASSUME IInv, NEW c \in Clients, TypeOK', Stage(c)', UNCHANGED <<entry, byUpstream>>,
         \A d \in Clients : d # c => pc'[d] = pc[d] /\ proxy'[d] = proxy[d],
         pc'[c].respawn \in {"spawn", "list", "drop"} => proxy'[c].gen < MaxGens
  PROVE  IInv'
  <1>1. Stages' /\ GensLeft'
    BY Others
  <1>2. Counts'
    BY SameCounts DEF IInv
  <1>3. QED
    BY <1>1, <1>2 DEF IInv

(* A close that leaves the client's threads where they are, or ends the    *)
(* handler that lost the race.                                             *)
LEMMA ClosingKeeps ==
  ASSUME IInv, NEW c \in Clients, NEW ids, CloseWith(c, ids), pc' \in [Clients -> Threads],
         \A d \in Clients : pc'[d].create = pc[d].create /\ pc'[d].respawn = pc[d].respawn,
         \A d \in Clients : d # c => pc'[d].init = pc[d].init,
         pc'[c].init = pc[c].init \/ (pc[c].init = "lost" /\ pc'[c].init = "done"),
         session' \in [Ids -> {"absent", "reserved", "held"}], removal' \subseteq Ids,
         UNCHANGED <<memberVars, chosen>>
  PROVE  IInv'
  <1>1. TypeOK /\ Counts /\ GensLeft
    BY DEF IInv
  <1>2. Stages'
    BY CloseKeepsStages
  <1>3. /\ Counts' /\ entry' \in [Objects -> Entry]
        /\ byUpstream' \in [Keys -> Objects \cup {None}]
        /\ UNCHANGED <<slots, hooked, hooking>>
        /\ proxy' \in [Clients -> Proxy] /\ byDownstream' = byDownstream \ ids
        /\ proxy'[c].gen = proxy[c].gen
        /\ \A d \in Clients : d # c => proxy'[d] = proxy[d]
    BY <1>1, Closes
  <1>4. GensLeft'
    BY <1>1, <1>3 DEF GensLeft
  <1>5. TypeOK'
    BY <1>1, <1>3 DEF TypeOK, memberVars
  <1>6. QED
    BY <1>2, <1>3, <1>4, <1>5 DEF IInv

LEMMA ListFailsKeeps ==
  ASSUME IInv, NEW c \in Clients, ListFails(c)
  PROVE  IInv'
  <1>1. TypeOK /\ Counts /\ Stage(c) /\ GensLeft
    BY DEF IInv, Stages
  <1>2. /\ pc' \in [Clients -> Threads] /\ pc[c].create = "list" /\ pc'[c].create = "release"
        /\ pc'[c].init = pc[c].init /\ pc'[c].respawn = pc[c].respawn
        /\ \A d \in Clients : d # c => pc'[d] = pc[d]
    BY <1>1, ClientUpdates DEF ListFails
  <1>3. pc[c].init = "none" /\ byUpstream[<<c, "upstream">>] = None
    BY <1>1, <1>2 DEF Stage, UpstreamKeyFree
  <1>4. CloseWith(c, {Current(c)})
    BY DEF ListFails, CloseDownstream
  <1>5. /\ Counts' /\ entry' \in [Objects -> Entry]
        /\ byUpstream' \in [Keys -> Objects \cup {None}]
        /\ UNCHANGED <<slots, hooked, hooking>>
        /\ proxy' \in [Clients -> Proxy] /\ byDownstream' = byDownstream \ {Current(c)}
        /\ proxy'[c].gen = proxy[c].gen
        /\ \A d \in Clients : d # c => proxy'[d] = proxy[d]
        /\ \A k \in Keys : k # <<c, "upstream">> \/ byUpstream[k] = None
                          => byUpstream'[k] = byUpstream[k]
    BY <1>1, <1>4, Closes
  <1>6. byUpstream'[<<c, "upstream">>] = None
    BY <1>3, <1>5, KeysOf
  <1>7. \A k \in Keys : k[1] # c => byUpstream'[k] = byUpstream[k]
    BY <1>5
  <1>8. Stage(c)'
    BY <1>2, <1>3, <1>6 DEF Stage, PendingKeyFree, UpstreamKeyFree
  <1>9. Stages' /\ GensLeft'
    BY <1>1, <1>2, <1>5, <1>7, <1>8, Others DEF GensLeft
  <1>10. UNCHANGED <<running, started, handled, listening, chosen, removal>>
         /\ session' = [session EXCEPT ![<<c, 1>>] = "absent"]
    BY DEF ListFails, memberVars
  <1>11. TypeOK'
    BY <1>1, <1>2, <1>5, <1>10 DEF TypeOK
  <1>12. QED
    BY <1>5, <1>9, <1>11 DEF IInv

LEMMA RebindKeeps ==
  ASSUME IInv, NEW c \in Clients, Rebind(c)
  PROVE  IInv'
  <1>1. TypeOK /\ Counts /\ Stage(c) /\ GensLeft
    BY DEF IInv, Stages
  <1>2. /\ pc' \in [Clients -> Threads] /\ pc[c].init \in {"publish", "publishDead"}
        /\ pc'[c].init \in {"recheck", "doneDead"}
        /\ pc'[c].create = pc[c].create /\ pc'[c].respawn = pc[c].respawn
        /\ \A d \in Clients : d # c => pc'[d] = pc[d]
    BY <1>1, ClientUpdates DEF Rebind
  <1>3. UNCHANGED <<running, started, handled, listening, slots, entry, hooked, hooking, chosen,
                    session, removal>>
    BY DEF Rebind, memberVars, sessVars
  <1>4. /\ Counts' /\ byUpstream' \in [Keys -> Objects \cup {None}]
        /\ byUpstream'[<<c, "pending">>] = None
        /\ \A k \in Keys : k[1] # c => byUpstream'[k] = byUpstream[k]
    <2>1. byUpstream \in [Keys -> Objects \cup {None}]
      BY <1>1 DEF TypeOK
    <2>2. CASE byUpstream[<<c, "pending">>] = None
      <3>1. byUpstream' = byUpstream
        BY <2>2 DEF Rebind
      <3>2. Counts'
        BY <3>1, <1>1, <1>3, SameCounts
      <3>3. QED
        BY <2>1, <2>2, <3>1, <3>2
    <2>3. CASE byUpstream[<<c, "pending">>] # None
      <3>1. byUpstream' = [byUpstream EXCEPT ![<<c, "pending">>] = None,
                             ![<<c, "upstream">>] = byUpstream[<<c, "pending">>]]
        BY <2>3 DEF Rebind
      <3>2. byUpstream[<<c, "upstream">>] = None
        BY <1>1, <1>2 DEF Stage, UpstreamKeyFree
      <3>3. Counts' /\ byUpstream' \in [Keys -> Objects \cup {None}]
        BY <1>1, <1>3, <2>3, <3>1, <3>2, KeysOf, RebindCounts
      <3>4. QED
        BY <2>1, <3>1, <3>3, KeysOf
    <2>4. QED
      BY <2>2, <2>3
  <1>5. proxy' = [proxy EXCEPT ![c].listed = TRUE] /\ proxy \in [Clients -> Proxy]
    BY <1>1 DEF Rebind, TypeOK
  <1>6. /\ proxy' \in [Clients -> Proxy] /\ proxy'[c].upstream = proxy[c].upstream
        /\ proxy'[c].gen = proxy[c].gen
        /\ \A d \in Clients : d # c => proxy'[d] = proxy[d]
    BY <1>5 DEF Proxy
  <1>7. Stage(c)'
    BY <1>1, <1>2, <1>4, <1>6 DEF Stage, PendingKeyFree, UpstreamKeyFree
  <1>8. Stages' /\ GensLeft'
    BY <1>1, <1>2, <1>4, <1>6, <1>7, Others DEF GensLeft
  <1>9. TypeOK'
    <2>1. byDownstream' \subseteq Ids
      BY <1>1, IdsOf DEF Rebind, TypeOK
    <2>2. QED
      BY <1>1, <1>2, <1>3, <1>4, <1>6, <2>1 DEF TypeOK
  <1>10. QED
    BY <1>4, <1>8, <1>9 DEF IInv

LEMMA InitializedKeeps ==
  ASSUME IInv, NEW c \in Clients, Initialized(c)
  PROVE  IInv'
  <1>1. TypeOK /\ Stage(c) /\ GensLeft
    BY DEF IInv, Stages
  <1>2. UNCHANGED <<running, started, handled, listening, slots, entry, byUpstream, hooked,
                    hooking, chosen, session, removal, byDownstream>>
    BY DEF Initialized, memberVars, muxVars, sessVars
  <1>3. /\ pc' \in [Clients -> Threads] /\ pc[c].init = "none" /\ pc'[c].init = "credit"
        /\ pc[c].create = "ready" /\ pc'[c].create = "ready"
        /\ pc'[c].respawn = pc[c].respawn
        /\ \A d \in Clients : d # c => pc'[d] = pc[d]
    BY <1>1, ClientUpdates DEF Initialized
  <1>4. proxy' = [proxy EXCEPT ![c].upstream = TRUE] /\ proxy \in [Clients -> Proxy]
    BY <1>1 DEF Initialized, TypeOK
  <1>5. /\ proxy' \in [Clients -> Proxy] /\ proxy'[c].upstream
        /\ proxy'[c].state = proxy[c].state /\ proxy'[c].gen = proxy[c].gen
        /\ \A d \in Clients : d # c => proxy'[d] = proxy[d]
    BY <1>4 DEF Proxy
  <1>6. Stage(c)'
    BY <1>1, <1>2, <1>3, <1>5 DEF Stage, PendingKeyFree, UpstreamKeyFree
  <1>7. TypeOK'
    BY <1>1, <1>2, <1>3, <1>5 DEF TypeOK
  <1>8. QED
    BY <1>1, <1>2, <1>3, <1>5, <1>6, <1>7, BooksUntouched DEF GensLeft

LEMMA CreditKeeps ==
  ASSUME IInv, NEW c \in Clients, Credit(c) \/ Recheck(c)
  PROVE  IInv'
  <1>1. TypeOK /\ Stage(c) /\ GensLeft
    BY DEF IInv, Stages
  <1>2. UNCHANGED <<running, started, handled, listening, slots, entry, byUpstream, hooked,
                    hooking, chosen, session, removal, proxy, byDownstream>>
    BY DEF Credit, Recheck, memberVars, muxVars, sessVars, proxyVars
  <1>3. /\ pc' \in [Clients -> Threads] /\ pc'[c].create = pc[c].create
        /\ pc'[c].respawn = pc[c].respawn
        /\ \A d \in Clients : d # c => pc'[d] = pc[d]
        /\ \/ pc[c].init = "credit" /\ pc'[c].init \in {"publish", "publishDead"}
           \/ /\ pc[c].init = "recheck" /\ pc'[c].init \in {"done", "lost"}
              /\ pc'[c].init = "done" => proxy[c].state = "live"
    <2>1. CASE Credit(c)
      BY <1>1, <2>1, ClientUpdates DEF Credit
    <2>2. CASE Recheck(c)
      BY <1>1, <2>2, ClientUpdates DEF Recheck
    <2>3. QED
      BY <2>1, <2>2
  <1>4. Stage(c)'
    BY <1>1, <1>2, <1>3 DEF Stage, PendingKeyFree, UpstreamKeyFree
  <1>5. TypeOK'
    BY <1>1, <1>2, <1>3 DEF TypeOK
  <1>6. QED
    BY <1>1, <1>2, <1>3, <1>4, <1>5, BooksUntouched DEF GensLeft

LEMMA LostRaceKeeps ==
  ASSUME IInv, NEW c \in Clients, LostRace(c)
  PROVE  IInv'
  <1>1. TypeOK
    BY DEF IInv
  <1>2. /\ pc' \in [Clients -> Threads] /\ pc[c].init = "lost" /\ pc'[c].init = "done"
        /\ pc'[c].create = pc[c].create /\ pc'[c].respawn = pc[c].respawn
        /\ \A d \in Clients : d # c => pc'[d] = pc[d]
    BY <1>1, ClientUpdates DEF LostRace
  <1>3. CloseWith(c, {Current(c)}) /\ UNCHANGED <<memberVars, chosen, session, removal>>
    BY DEF LostRace, CloseDownstream, sessVars
  <1>4. QED
    BY <1>1, <1>2, <1>3, ClosingKeeps DEF TypeOK

LEMMA DeleteKeeps ==
  ASSUME IInv, NEW c \in Clients, Delete(c) \/ ProbeCloses(c)
  PROVE  IInv'
  <1>1. TypeOK
    BY DEF IInv
  <1>2. /\ CloseWith(c, {Current(c)}) /\ UNCHANGED <<memberVars, chosen, removal, pc>>
        /\ session' \in [Ids -> {"absent", "reserved", "held"}]
    BY <1>1 DEF Delete, ProbeCloses, CloseDownstream, TypeOK, sessVars
  <1>3. QED
    BY <1>1, <1>2, ClosingKeeps DEF TypeOK

LEMMA NotifyKeeps ==
  ASSUME IInv, NEW i \in Ids, Notify(i)
  PROVE  IInv'
  <1>1. TypeOK /\ i[1] \in Clients
    BY DEF IInv, Ids
  <1>2. /\ UNCHANGED <<memberVars, chosen, session, pc>> /\ removal' = removal \ {i}
    BY DEF Notify
  <1>3. CASE CloseWith(i[1], {i, Current(i[1])})
    BY <1>1, <1>2, <1>3, ClosingKeeps DEF TypeOK
  <1>4. CASE UNCHANGED <<proxyVars, muxVars>>
    <2>1. TypeOK'
      BY <1>1, <1>2, <1>4 DEF TypeOK, memberVars, muxVars, proxyVars
    <2>2. QED
      BY <2>1, <1>2, <1>4, Idle DEF IInv, muxVars, proxyVars
  <1>5. QED
    BY <1>3, <1>4 DEF Notify

---------------------------------------------------------------------------
(* The steps of a respawn.                                                 *)
LEMMA RespawnControl ==
  ASSUME TypeOK, GensLeft, NEW c \in Clients, NEW from, NEW to, RespawnStep(c, from, to),
         to \in {"none", "spawn", "list", "drop", "retire"},
         from \in {"spawn", "list", "drop"} \/ to = "none" \/ proxy[c].gen < MaxGens
  PROVE  /\ pc' \in [Clients -> Threads] /\ pc[c].respawn = from
         /\ \A d \in Clients : d # c => pc'[d] = pc[d]
         /\ pc'[c].create = pc[c].create /\ pc'[c].init = pc[c].init
         /\ pc'[c].respawn \in {"spawn", "list", "drop"} => proxy[c].gen < MaxGens
  <1>1. /\ pc' \in [Clients -> Threads] /\ pc[c].respawn = from /\ pc'[c].respawn = to
        /\ \A d \in Clients : d # c => pc'[d] = pc[d]
        /\ pc'[c].create = pc[c].create /\ pc'[c].init = pc[c].init
    BY ClientUpdates
  <1>2. QED
    BY <1>1 DEF GensLeft

LEMMA RespawnKeeps ==
  ASSUME IInv, NEW c \in Clients, Respawn(c)
  PROVE  IInv'
  <1>1. TypeOK /\ Stage(c) /\ GensLeft
    BY DEF IInv, Stages
  <1>2. UNCHANGED <<running, started, handled, listening, slots, entry, byUpstream, hooked,
                    hooking, chosen, proxy>>
    BY DEF Respawn, memberVars, muxVars, proxyVars
  <1>3. /\ pc' \in [Clients -> Threads]
        /\ \A d \in Clients : d # c => pc'[d] = pc[d]
        /\ pc'[c].create = pc[c].create /\ pc'[c].init = pc[c].init
        /\ pc'[c].respawn \in {"spawn", "list", "drop"} => proxy[c].gen < MaxGens
    BY <1>1, RespawnControl DEF Respawn
  <1>4. Stage(c)'
    BY <1>1, <1>2, <1>3 DEF Stage, PendingKeyFree, UpstreamKeyFree
  <1>5. TypeOK'
    <2>1. /\ session' \in [Ids -> {"absent", "reserved", "held"}]
          /\ removal' \subseteq Ids /\ byDownstream' \subseteq Ids
      BY <1>1, IdsOf DEF Respawn, RespawnStep, TypeOK, sessVars, proxyVars
    <2>2. QED
      BY <1>1, <1>2, <1>3, <2>1 DEF TypeOK
  <1>6. QED
    BY <1>2, <1>3, <1>4, <1>5, BooksUntouched

LEMMA RespawnFailsKeeps ==
  ASSUME IInv, NEW c \in Clients, RespawnFails(c)
  PROVE  IInv'
  <1>1. TypeOK /\ Stage(c) /\ GensLeft
    BY DEF IInv, Stages
  <1>2. UNCHANGED <<running, started, handled, listening, slots, entry, byUpstream, hooked,
                    hooking, chosen, proxy>>
    BY DEF RespawnFails, memberVars, muxVars, proxyVars
  <1>3. /\ pc' \in [Clients -> Threads]
        /\ \A d \in Clients : d # c => pc'[d] = pc[d]
        /\ pc'[c].create = pc[c].create /\ pc'[c].init = pc[c].init
        /\ pc'[c].respawn \in {"spawn", "list", "drop"} => proxy[c].gen < MaxGens
    BY <1>1, RespawnControl DEF RespawnFails
  <1>4. Stage(c)'
    BY <1>1, <1>2, <1>3 DEF Stage, PendingKeyFree, UpstreamKeyFree
  <1>5. TypeOK'
    <2>1. /\ session' \in [Ids -> {"absent", "reserved", "held"}]
          /\ removal' \subseteq Ids /\ byDownstream' \subseteq Ids
      BY <1>1, IdsOf DEF RespawnFails, RespawnStep, TypeOK, sessVars, proxyVars
    <2>2. QED
      BY <1>1, <1>2, <1>3, <2>1 DEF TypeOK
  <1>6. QED
    BY <1>2, <1>3, <1>4, <1>5, BooksUntouched

LEMMA RespawnListFailsKeeps ==
  ASSUME IInv, NEW c \in Clients, RespawnListFails(c)
  PROVE  IInv'
  <1>1. TypeOK /\ Stage(c) /\ GensLeft
    BY DEF IInv, Stages
  <1>2. UNCHANGED <<running, started, handled, listening, slots, entry, byUpstream, hooked,
                    hooking, chosen, proxy>>
    BY DEF RespawnListFails, memberVars, muxVars, proxyVars
  <1>3. /\ pc' \in [Clients -> Threads]
        /\ \A d \in Clients : d # c => pc'[d] = pc[d]
        /\ pc'[c].create = pc[c].create /\ pc'[c].init = pc[c].init
        /\ pc'[c].respawn \in {"spawn", "list", "drop"} => proxy[c].gen < MaxGens
    BY <1>1, RespawnControl DEF RespawnListFails
  <1>4. Stage(c)'
    BY <1>1, <1>2, <1>3 DEF Stage, PendingKeyFree, UpstreamKeyFree
  <1>5. TypeOK'
    <2>1. /\ session' \in [Ids -> {"absent", "reserved", "held"}]
          /\ removal' \subseteq Ids /\ byDownstream' \subseteq Ids
      BY <1>1, IdsOf DEF RespawnListFails, RespawnStep, TypeOK, sessVars, proxyVars
    <2>2. QED
      BY <1>1, <1>2, <1>3, <2>1 DEF TypeOK
  <1>6. QED
    BY <1>2, <1>3, <1>4, <1>5, BooksUntouched

LEMMA DropRekeyedKeeps ==
  ASSUME IInv, NEW c \in Clients, DropRekeyed(c)
  PROVE  IInv'
  <1>1. TypeOK /\ Stage(c) /\ GensLeft
    BY DEF IInv, Stages
  <1>2. UNCHANGED <<running, started, handled, listening, slots, entry, byUpstream, hooked,
                    hooking, chosen, proxy>>
    BY DEF DropRekeyed, memberVars, muxVars, proxyVars
  <1>3. /\ pc' \in [Clients -> Threads]
        /\ \A d \in Clients : d # c => pc'[d] = pc[d]
        /\ pc'[c].create = pc[c].create /\ pc'[c].init = pc[c].init
        /\ pc'[c].respawn \in {"spawn", "list", "drop"} => proxy[c].gen < MaxGens
    BY <1>1, RespawnControl DEF DropRekeyed
  <1>4. Stage(c)'
    BY <1>1, <1>2, <1>3 DEF Stage, PendingKeyFree, UpstreamKeyFree
  <1>5. TypeOK'
    <2>1. /\ session' \in [Ids -> {"absent", "reserved", "held"}]
          /\ removal' \subseteq Ids /\ byDownstream' \subseteq Ids
      BY <1>1, IdsOf DEF DropRekeyed, RespawnStep, TypeOK, sessVars, proxyVars
    <2>2. QED
      BY <1>1, <1>2, <1>3, <2>1 DEF TypeOK
  <1>6. QED
    BY <1>2, <1>3, <1>4, <1>5, BooksUntouched

LEMMA RetireKeeps ==
  ASSUME IInv, NEW c \in Clients, Retire(c)
  PROVE  IInv'
  <1>1. TypeOK /\ Stage(c) /\ GensLeft
    BY DEF IInv, Stages
  <1>2. UNCHANGED <<running, started, handled, listening, slots, entry, byUpstream, hooked,
                    hooking, chosen, proxy>>
    BY DEF Retire, memberVars, muxVars, proxyVars
  <1>3. /\ pc' \in [Clients -> Threads]
        /\ \A d \in Clients : d # c => pc'[d] = pc[d]
        /\ pc'[c].create = pc[c].create /\ pc'[c].init = pc[c].init
        /\ pc'[c].respawn \in {"spawn", "list", "drop"} => proxy[c].gen < MaxGens
    BY <1>1, RespawnControl DEF Retire
  <1>4. Stage(c)'
    BY <1>1, <1>2, <1>3 DEF Stage, PendingKeyFree, UpstreamKeyFree
  <1>5. TypeOK'
    <2>1. /\ session' \in [Ids -> {"absent", "reserved", "held"}]
          /\ removal' \subseteq Ids /\ byDownstream' \subseteq Ids
      BY <1>1, IdsOf DEF Retire, RespawnStep, TypeOK, sessVars, proxyVars
    <2>2. QED
      BY <1>1, <1>2, <1>3, <2>1 DEF TypeOK
  <1>6. QED
    BY <1>2, <1>3, <1>4, <1>5, BooksUntouched

LEMMA AbandonRespawnKeeps ==
  ASSUME IInv, NEW c \in Clients, AbandonRespawn(c)
  PROVE  IInv'
  <1>1. TypeOK /\ Stage(c) /\ GensLeft
    BY DEF IInv, Stages
  <1>2. UNCHANGED <<running, started, handled, listening, slots, entry, byUpstream, hooked,
                    hooking, chosen, proxy>>
    BY DEF AbandonRespawn, memberVars, muxVars, proxyVars
  <1>3. /\ pc' \in [Clients -> Threads]
        /\ \A d \in Clients : d # c => pc'[d] = pc[d]
        /\ pc'[c].create = pc[c].create /\ pc'[c].init = pc[c].init
        /\ pc'[c].respawn \in {"spawn", "list", "drop"} => proxy[c].gen < MaxGens
    BY <1>1, RespawnControl DEF AbandonRespawn
  <1>4. Stage(c)'
    BY <1>1, <1>2, <1>3 DEF Stage, PendingKeyFree, UpstreamKeyFree
  <1>5. TypeOK'
    <2>1. /\ session' \in [Ids -> {"absent", "reserved", "held"}]
          /\ removal' \subseteq Ids /\ byDownstream' \subseteq Ids
      BY <1>1, IdsOf DEF AbandonRespawn, RespawnStep, TypeOK, sessVars, proxyVars
    <2>2. QED
      BY <1>1, <1>2, <1>3, <2>1 DEF TypeOK
  <1>6. QED
    BY <1>2, <1>3, <1>4, <1>5, BooksUntouched

LEMMA RespawnedKeeps ==
  ASSUME IInv, NEW c \in Clients, Respawned(c)
  PROVE  IInv'
  <1>1. TypeOK /\ Stage(c) /\ GensLeft
    BY DEF IInv, Stages
  <1>2. UNCHANGED <<running, started, handled, listening, slots, entry, byUpstream, hooked,
                    hooking, chosen, removal>>
    BY DEF Respawned, memberVars, muxVars
  <1>3. /\ pc' \in [Clients -> Threads]
        /\ \A d \in Clients : d # c => pc'[d] = pc[d]
        /\ pc'[c].create = pc[c].create /\ pc'[c].init = pc[c].init
        /\ pc'[c].respawn \in {"spawn", "list", "drop"} => proxy[c].gen < MaxGens
    BY <1>1, RespawnControl DEF Respawned
  <1>4. PICK b \in BOOLEAN : proxy' = [proxy EXCEPT ![c].listed = b]
    <2>1. proxy[c].listed \in BOOLEAN /\ proxy[c].upstream \in BOOLEAN
      BY <1>1 DEF TypeOK, Proxy
    <2>2. (proxy[c].listed \/ proxy[c].upstream) \in BOOLEAN
      BY <2>1
    <2>3. proxy' = [proxy EXCEPT ![c].listed = proxy[c].listed \/ proxy[c].upstream]
      BY DEF Respawned
    <2>4. QED
      BY <2>2, <2>3
  <1>5. /\ proxy' \in [Clients -> Proxy]
        /\ proxy'[c].state = proxy[c].state /\ proxy'[c].upstream = proxy[c].upstream
        /\ proxy'[c].gen = proxy[c].gen
        /\ \A d \in Clients : d # c => proxy'[d] = proxy[d]
    BY <1>1, <1>4 DEF TypeOK, Proxy
  <1>6. Stage(c)'
    BY <1>1, <1>2, <1>3, <1>5 DEF Stage, PendingKeyFree, UpstreamKeyFree
  <1>7. TypeOK'
    <2>1. session' \in [Ids -> {"absent", "reserved", "held"}] /\ byDownstream' \subseteq Ids
      BY <1>1, IdsOf DEF Respawned, RespawnStep, TypeOK
    <2>2. QED
      BY <1>1, <1>2, <1>3, <1>5, <2>1 DEF TypeOK
  <1>8. QED
    BY <1>2, <1>3, <1>5, <1>6, <1>7, BooksUntouched

LEMMA PublishRespawnKeeps ==
  ASSUME IInv, NEW c \in Clients, PublishRespawn(c)
  PROVE  IInv'
  <1>1. TypeOK /\ Stage(c) /\ GensLeft
    BY DEF IInv, Stages
  <1>2. UNCHANGED <<running, started, handled, listening, slots, entry, byUpstream, hooked,
                    hooking, chosen, session, removal, byDownstream>>
    BY DEF PublishRespawn, memberVars, muxVars, sessVars
  <1>3. PICK i : /\ i = IF pc[c].init = "doneDead" THEN "done" ELSE pc[c].init
                 /\ pc' = [pc EXCEPT ![c].respawn = "retire", ![c].init = i]
    BY DEF PublishRespawn
  <1>4. /\ pc' \in [Clients -> Threads]
        /\ \A d \in Clients : d # c => pc'[d] = pc[d]
        /\ pc'[c].create = pc[c].create /\ pc'[c].respawn = "retire"
        /\ pc'[c].init = pc[c].init \/ (pc[c].init = "doneDead" /\ pc'[c].init = "done")
    <2>1. pc \in [Clients -> Threads] /\ pc[c] \in Threads
      BY <1>1 DEF TypeOK
    <2>2. i \in {"none", "credit", "publish", "publishDead", "recheck", "lost", "done",
                 "doneDead"}
      BY <1>3, <2>1 DEF Threads
    <2>3. QED
      BY <1>3, <2>1, <2>2 DEF Threads
  <1>5. proxy[c].gen \in 1 .. MaxGens /\ proxy[c].gen + 1 \in 1 .. MaxGens
    <2>1. proxy[c].gen \in 1 .. MaxGens
      BY <1>1, ProxyUpdates DEF TypeOK
    <2>2. proxy[c].gen < MaxGens
      BY <1>1 DEF PublishRespawn, GensLeft
    <2>3. QED
      BY <2>1, <2>2, ConstantsAssumption
  <1>6. proxy' = [proxy EXCEPT ![c].state = "live", ![c].gen = proxy[c].gen + 1]
        /\ proxy \in [Clients -> Proxy]
    BY <1>1 DEF PublishRespawn, TypeOK
  <1>7. /\ proxy' \in [Clients -> Proxy]
        /\ proxy'[c].state = "live" /\ proxy'[c].upstream = proxy[c].upstream
        /\ \A d \in Clients : d # c => proxy'[d] = proxy[d]
    BY <1>5, <1>6 DEF Proxy
  <1>8. Stage(c)'
    BY <1>1, <1>2, <1>4, <1>7 DEF Stage, PendingKeyFree, UpstreamKeyFree
  <1>9. TypeOK'
    BY <1>1, <1>2, <1>4, <1>7 DEF TypeOK
  <1>10. QED
    BY <1>2, <1>4, <1>7, <1>8, <1>9, BooksUntouched

---------------------------------------------------------------------------
(* Every action keeps the invariant.                                       *)
THEOREM Inductive == IInv /\ [Next]_vars => IInv'
  <1> SUFFICES ASSUME IInv, [Next]_vars PROVE IInv'
    OBVIOUS
  <1>1. ASSUME NEW c \in Clients, ClientStep(c) PROVE IInv'
    BY <1>1, AdmitKeeps, DenyKeeps, SelectForNewSessionKeeps, SelectsNoneKeeps, ReserveKeeps,
       RefusedKeeps, ConnectedKeeps, ConnectFailsKeeps, ListFailsKeeps, ListedKeeps,
       ReleasePendingKeeps, InitializedKeeps, CreditKeeps, RebindKeeps, LostRaceKeeps,
       RespawnKeeps, RespawnFailsKeeps, RespawnedKeeps, RespawnListFailsKeeps,
       DropRekeyedKeeps, PublishRespawnKeeps, RetireKeeps, AbandonRespawnKeeps, DeleteKeeps
       DEF ClientStep
  <1>2. ASSUME NEW i \in Ids, Reap(i) \/ Notify(i) PROVE IInv'
    BY <1>2, ReapKeeps, NotifyKeeps
  <1>3. ASSUME NEW s \in Slots, MemberStep(s) PROVE IInv'
    BY <1>3, MemberStopsKeeps, MemberStartsKeeps, HandleStoppedKeeps, HandleStartedKeeps
       DEF MemberStep
  <1>4. ASSUME ApplyRemovalHook PROVE IInv'
    BY <1>4, ApplyRemovalHookKeeps
  <1>5. ASSUME UNCHANGED vars PROVE IInv'
    <2>1. UNCHANGED <<pc, proxy, byUpstream, entry>> /\ TypeOK'
      BY <1>5 DEF IInv, TypeOK, vars, memberVars, muxVars, sessVars, proxyVars
    <2>2. QED
      BY <2>1, Idle DEF IInv
  <1>6. QED
    BY <1>1, <1>2, <1>3, <1>4, <1>5 DEF Next

THEOREM Invariant == Spec => []IInv
  BY Initially, Inductive, PTL DEF Spec

(* The types of the model: no step takes an id, a count or an entry out of *)
(* its range.                                                              *)
THEOREM SlotTypes == Spec => []TypeOK
  <1>1. IInv => TypeOK
    BY DEF IInv
  <1>2. QED
    BY <1>1, Invariant, PTL

(* The pending count of every slotEntry is the number of keys bound to it, *)
(* across selections, rebinds, releases and ReplaceEntries.                *)
THEOREM PendingCountsAreExact == Spec => []PendingExact
  <1>1. IInv => PendingExact
    BY DEF IInv, Counts
  <1>2. QED
    BY <1>1, Invariant, PTL

(* No member gets more reservations than max_sessions, however many        *)
(* requests raced through the admission check.                             *)
THEOREM SlotsAreNeverCrowded == Spec => []NeverCrowded
  <1>1. IInv => NeverCrowded
    BY DEF IInv, Counts
  <1>2. QED
    BY <1>1, Invariant, PTL

(* A client that was refused, or whose published session is closed, is     *)
(* bound to no entry.                                                      *)
THEOREM ReservationsAreReturned == Spec => []NoStrayReservation
  <1>1. IInv => NoStrayReservation
    <2>1. ASSUME IInv, NEW c \in Clients,
                 \/ pc[c].create \in {"denied", "failed"}
                 \/ pc[c].init = "done" /\ proxy[c].state = "closed",
                 NEW k \in Keys, k[1] = c
          PROVE  byUpstream[k] = None
      <3>1. Stage(c)
        BY <2>1 DEF IInv, Stages
      <3>2. k = <<c, "pending">> \/ k = <<c, "upstream">>
        BY <2>1 DEF Keys
      <3>3. QED
        BY <2>1, <3>1, <3>2 DEF Stage, PendingKeyFree, UpstreamKeyFree
    <2>2. QED
      BY <2>1 DEF NoStrayReservation
  <1>2. QED
    BY <1>1, Invariant, PTL
=============================================================================
