------------------------- MODULE ProxySessionProofs -------------------------
(***************************************************************************)
(* Proofs about ProxySession for any finite set of proxy sessions, any     *)
(* number of generations and any max_sessions, whatever a subprocess sends *)
(* and when: the credit and the entries of the manager first, then the     *)
(* gate before a close.                                                    *)
(***************************************************************************)
EXTENDS ProxySession, FiniteSetTheorems, TLAPS

Gens == 1 .. MaxGens

(* closeOnce is used up exactly while the session is closed.               *)
OnceClosed(p) == proxy[p].once <=> proxy[p].closed

(* A respawn works on a newer generation than the current one, and none    *)
(* runs before there was a subprocess.                                     *)
Newer(p) ==
  /\ proxy[p].id <= proxy[p].gens
  /\ pc[p].respawn \in {"spawn", "rekey", "list"} => proxy[p].id < proxy[p].gens
  /\ pc[p].respawn = "list" => proxy[p].old = proxy[p].id
  /\ pc[p].create \in {"none", "spawn"} =>
       /\ proxy[p].gens = 1 /\ pc[p].respawn = "none"
       /\ \A g \in Gens : transport[<<p, g>>] # "open"

(* The manager's entries of a proxy session are that of its current        *)
(* generation and one of the respawn that is under way.                    *)
Entry(p, g) ==
  /\ session[<<p, g>>] = "reserved" =>
       \/ g = 1 /\ pc[p].create = "spawn"
       \/ g = proxy[p].gens /\ pc[p].respawn = "spawn"
  /\ session[<<p, g>>] # "absent" =>
       \/ g = proxy[p].id
       \/ g = proxy[p].gens /\ pc[p].respawn \in {"spawn", "rekey", "list"}
       \/ g = proxy[p].old /\ pc[p].respawn = "retire"

(* A client that has initialized has an upstream session, and one that has *)
(* not was not served yet; the credit is as CreditMatchesLife says.        *)
Credited(p) ==
  /\ pc[p].init # "none" => proxy[p].upstream /\ pc[p].create = "serving"
  /\ proxy[p].counted => Live(p)
  /\ Live(p) /\ pc[p].init \notin {"none", "credit"} => proxy[p].counted

Sound(p) == OnceClosed(p) /\ Newer(p) /\ (\A g \in Gens : Entry(p, g)) /\ Credited(p)

IInv == TypeOK /\ \A p \in Proxies : Sound(p)

---------------------------------------------------------------------------
LEMMA IdFacts ==
  /\ \A p \in Proxies, g \in Gens : <<p, g>> \in Ids
  /\ \A i \in Ids : i[1] \in Proxies /\ i[2] \in Gens /\ i = <<i[1], i[2]>>
  /\ MaxGens \in Nat \ {0} /\ 1 \in Gens
  BY ConstantsAssumption DEF Gens

LEMMA Fields ==
  ASSUME TypeOK, NEW p \in Proxies
  PROVE  /\ proxy \in [Proxies -> Proxy] /\ proxy[p] \in Proxy
         /\ proxy[p].id \in Gens /\ proxy[p].gens \in Gens /\ proxy[p].old \in Gens
         /\ proxy[p].ds \in 0 .. MaxGens
         /\ proxy[p].closed => proxy[p].once /\ proxy[p].ds = 0
         /\ pc \in [Proxies -> Threads] /\ pc[p] \in Threads
         /\ First(p) \in Ids /\ Current(p) \in Ids /\ Newest(p) \in Ids
         /\ <<p, proxy[p].old>> \in Ids
  BY IdFacts DEF TypeOK, Proxy, Gens, First, Current, Newest

(* One thread of one proxy session moves.                                  *)
LEMMA CreateMoves ==
  ASSUME TypeOK, NEW p \in Proxies, NEW to \in {"none", "spawn", "attach", "list", "serving",
                                                "undo", "failed"},
         pc' = [pc EXCEPT ![p].create = to]
  PROVE  /\ pc' \in [Proxies -> Threads] /\ \A q \in Proxies \ {p} : pc'[q] = pc[q]
         /\ pc'[p].create = to /\ pc'[p].init = pc[p].init
         /\ pc'[p].respawn = pc[p].respawn /\ pc'[p].delete = pc[p].delete
  BY DEF TypeOK, Threads

LEMMA InitMoves ==
  ASSUME TypeOK, NEW p \in Proxies, NEW to \in {"none", "credit", "publish", "publishDead",
                                                "recheck", "lost", "done"},
         pc' = [pc EXCEPT ![p].init = to]
  PROVE  /\ pc' \in [Proxies -> Threads] /\ \A q \in Proxies \ {p} : pc'[q] = pc[q]
         /\ pc'[p].init = to /\ pc'[p].create = pc[p].create
         /\ pc'[p].respawn = pc[p].respawn /\ pc'[p].delete = pc[p].delete
  BY DEF TypeOK, Threads

LEMMA RespawnMoves ==
  ASSUME TypeOK, NEW p \in Proxies, NEW to \in {"none", "spawn", "rekey", "list", "drop",
                                                "abandon", "retire", "retireOnly"},
         pc' = [pc EXCEPT ![p].respawn = to]
  PROVE  /\ pc' \in [Proxies -> Threads] /\ \A q \in Proxies \ {p} : pc'[q] = pc[q]
         /\ pc'[p].respawn = to /\ pc'[p].create = pc[p].create
         /\ pc'[p].init = pc[p].init /\ pc'[p].delete = pc[p].delete
  BY DEF TypeOK, Threads

LEMMA DeleteMoves ==
  ASSUME TypeOK, NEW p \in Proxies, NEW to \in {"none", "close", "remove"},
         pc' = [pc EXCEPT ![p].delete = to]
  PROVE  /\ pc' \in [Proxies -> Threads] /\ \A q \in Proxies \ {p} : pc'[q] = pc[q]
         /\ pc'[p].delete = to /\ pc'[p].create = pc[p].create
         /\ pc'[p].init = pc[p].init /\ pc'[p].respawn = pc[p].respawn
  BY DEF TypeOK, Threads

(* The operations of the manager, on one entry.                            *)
SameElsewhere(i) ==
  \A j \in Ids \ {i} : /\ session'[j] = session[j] /\ transport'[j] = transport[j]
                       /\ removal'[j] = removal[j]

LEMMA ReserveMoves ==
  ASSUME ManagerTypeOK, NEW i \in Ids, Reserve(i)
  PROVE  /\ ManagerTypeOK' /\ SameElsewhere(i)
         /\ session[i] = "absent" /\ session'[i] = "reserved"
         /\ transport' = transport /\ removal' = removal
  BY DEF Reserve, ManagerTypeOK, SameElsewhere

LEMMA SpawnFailsMoves ==
  ASSUME ManagerTypeOK, NEW i \in Ids, SpawnFails(i)
  PROVE  /\ ManagerTypeOK' /\ SameElsewhere(i)
         /\ session'[i] = "absent" /\ transport' = transport /\ removal' = removal
  BY DEF SpawnFails, ManagerTypeOK, SameElsewhere

LEMMA SpawnedMoves ==
  ASSUME ManagerTypeOK, NEW i \in Ids, Spawned(i)
  PROVE  /\ ManagerTypeOK' /\ SameElsewhere(i)
         /\ session'[i] = "held" /\ transport'[i] = "open" /\ removal' = removal
  BY DEF Spawned, ManagerTypeOK, SameElsewhere

LEMMA TakeOutMoves ==
  ASSUME ManagerTypeOK, NEW S \in SUBSET Ids, TakeOut(S)
  PROVE  /\ ManagerTypeOK' /\ transport' = transport
         /\ \A j \in S : /\ session'[j] = "absent"
                         /\ session[j] = "held" => removal'[j] = "notify"
                         /\ session[j] # "held" => removal'[j] = removal[j]
         /\ \A j \in Ids \ S : session'[j] = session[j] /\ removal'[j] = removal[j]
  BY DEF TakeOut, ManagerTypeOK

LEMMA RemoveSessionMoves ==
  ASSUME ManagerTypeOK, NEW i \in Ids, RemoveSession(i)
  PROVE  /\ ManagerTypeOK' /\ SameElsewhere(i) /\ transport' = transport
         /\ session[i] = "held" => session'[i] = "absent" /\ removal'[i] = "notify"
         /\ session[i] # "held" => session'[i] = session[i] /\ removal'[i] = removal[i]
  <1>1. CASE session[i] = "held"
    <2>1. TakeOut({i})
      BY <1>1 DEF RemoveSession
    <2> QED
      BY <1>1, <2>1, TakeOutMoves DEF SameElsewhere
  <1>2. CASE session[i] # "held"
    <2>1. UNCHANGED managerVars
      BY <1>2 DEF RemoveSession
    <2> QED
      BY <1>2, <2>1 DEF SameElsewhere, managerVars, ManagerTypeOK
  <1> QED
    BY <1>1, <1>2

(* A removal advances: the callbacks, the gate, the connection.            *)
LEMMA RemovalMoves ==
  ASSUME ManagerTypeOK, NEW i \in Ids, NEW step \in {"gate", "close"},
         Notified(i, step) \/ Gated(i) \/ CloseTransport(i)
  PROVE  /\ ManagerTypeOK' /\ SameElsewhere(i) /\ session' = session
         /\ removal[i] \in {"notify", "gate", "close"}
         /\ removal[i] # "close" => transport' = transport
         /\ transport'[i] \in {transport[i], "closed"}
  BY DEF Notified, Gated, CloseTransport, ManagerTypeOK, SameElsewhere

---------------------------------------------------------------------------
(* A step of one proxy session leaves the others alone.                    *)
Untouched(q) ==
  /\ proxy'[q] = proxy[q] /\ pc'[q] = pc[q]
  /\ \A g \in Gens :
       /\ session'[<<q, g>>] = session[<<q, g>>]
       /\ transport'[<<q, g>>] = transport[<<q, g>>]
       /\ removal'[<<q, g>>] = removal[<<q, g>>]
       /\ probe'[<<q, g>>] = probe[<<q, g>>]
       /\ <<q, g>> \in byDownstream' <=> <<q, g>> \in byDownstream
  /\ q \in byUpstream' <=> q \in byUpstream

Others(p) == \A q \in Proxies \ {p} : Untouched(q)

LEMMA UntouchedSound ==
  ASSUME NEW q \in Proxies, Sound(q), Untouched(q)
  PROVE  Sound(q)'
  BY DEF Sound, OnceClosed, Newer, Entry, Credited, Live, Untouched

LEMMA Elsewhere ==
  ASSUME NEW p \in Proxies, NEW g \in Gens, SameElsewhere(<<p, g>>)
  PROVE  /\ \A q \in Proxies \ {p} : \A h \in Gens :
              /\ session'[<<q, h>>] = session[<<q, h>>]
              /\ transport'[<<q, h>>] = transport[<<q, h>>]
              /\ removal'[<<q, h>>] = removal[<<q, h>>]
         /\ \A h \in Gens \ {g} :
              /\ session'[<<p, h>>] = session[<<p, h>>]
              /\ transport'[<<p, h>>] = transport[<<p, h>>]
              /\ removal'[<<p, h>>] = removal[<<p, h>>]
  BY IdFacts DEF SameElsewhere

(* The close of a proxy session, by whichever thread.                      *)
LEMMA Closing ==
  ASSUME TypeOK, NEW p \in Proxies, Sound(p), CloseDownstream(p)
  PROVE  /\ proxy' \in [Proxies -> Proxy]
         /\ \A q \in Proxies \ {p} : proxy'[q] = proxy[q]
         /\ proxy'[p].id = proxy[p].id /\ proxy'[p].gens = proxy[p].gens
         /\ proxy'[p].old = proxy[p].old /\ proxy'[p].upstream = proxy[p].upstream
         /\ proxy'[p].once /\ proxy'[p].closed /\ proxy'[p].ds = 0 /\ ~proxy'[p].counted
         /\ byDownstream' = byDownstream \ {Current(p)}
         /\ byUpstream' \in {byUpstream, byUpstream \ {p}}
  <1> DEFINE r == [proxy[p] EXCEPT !.once = TRUE, !.counted = FALSE, !.closed = TRUE, !.ds = 0]
  <1>1. proxy \in [Proxies -> Proxy] /\ proxy[p] \in Proxy
    BY DEF TypeOK
  <1>0. 0 \in 0 .. MaxGens
    BY IdFacts
  <1>2. r \in Proxy
    BY <1>1, <1>0, Zenon DEF Proxy
  <1>r. /\ r.id = proxy[p].id /\ r.gens = proxy[p].gens
        /\ r.old = proxy[p].old /\ r.upstream = proxy[p].upstream
        /\ r.once /\ r.closed /\ r.ds = 0 /\ ~r.counted
    BY <1>1 DEF Proxy
  <1>3. proxy' = [proxy EXCEPT ![p] = IF proxy[p].once THEN proxy[p] ELSE r]
    BY DEF CloseDownstream
  <1>4. proxy[p].once => proxy[p].closed /\ proxy[p].ds = 0 /\ ~proxy[p].counted
    BY DEF TypeOK, Sound, OnceClosed, Credited, Live
  <1>5. /\ byDownstream' = byDownstream \ {Current(p)}
        /\ byUpstream' \in {byUpstream, byUpstream \ {p}}
    BY DEF CloseDownstream
  <1> HIDE DEF r
  <1> QED
    BY <1>1, <1>2, <1>r, <1>3, <1>4, <1>5

(* A step that changes no field of a proxy session.                        *)
LEMMA FieldsKept ==
  ASSUME TypeOK, NEW p \in Proxies, UNCHANGED proxy
  PROVE  /\ proxy' \in [Proxies -> Proxy]
         /\ \A q \in Proxies : proxy'[q] = proxy[q]
         /\ \A q \in Proxies : proxy'[q].closed => proxy'[q].once /\ proxy'[q].ds = 0
  BY DEF TypeOK

(* Before the first subprocess runs there is one generation.               *)
LEMMA OnlyFirst ==
  ASSUME TypeOK, NEW p \in Proxies, Sound(p), pc[p].create \in {"none", "spawn"}
  PROVE  /\ proxy[p].id = 1 /\ proxy[p].gens = 1 /\ pc[p].respawn = "none"
         /\ \A g \in Gens : transport[<<p, g>>] # "open"
  <1>1. Newer(p)
    BY DEF Sound
  <1>2. /\ proxy[p].gens = 1 /\ pc[p].respawn = "none" /\ proxy[p].id <= proxy[p].gens
        /\ \A g \in Gens : transport[<<p, g>>] # "open"
    BY <1>1 DEF Newer
  <1>3. proxy[p].id \in 1 .. MaxGens
    BY Fields DEF Gens
  <1>4. MaxGens \in Nat
    BY IdFacts
  <1> QED
    BY <1>2, <1>3, <1>4

(* A step of another thread than the handler of notifications/initialized, *)
(* which leaves the flags alone.                                           *)
LEMMA FlagsSound ==
  ASSUME NEW p \in Proxies, Sound(p), proxy'[p] = proxy[p], pc'[p].init = pc[p].init,
         pc[p].create = "serving" => pc'[p].create = "serving"
  PROVE  OnceClosed(p)' /\ Credited(p)'
  BY DEF Sound, OnceClosed, Credited, Live

LEMMA SoundParts ==
  ASSUME NEW p \in Proxies, OnceClosed(p)', Newer(p)', \A g \in Gens : Entry(p, g)',
         Credited(p)'
  PROVE  Sound(p)'
  BY DEF Sound

---------------------------------------------------------------------------
(* The constructor.                                                        *)
LEMMA OpenSteps ==
  ASSUME TypeOK, NEW p \in Proxies, Sound(p), Open(p)
  PROVE  TypeOK' /\ Others(p) /\ Sound(p)'
  <1>1. ManagerTypeOK /\ First(p) \in Ids /\ pc[p].create = "none"
    BY Fields DEF TypeOK, Open, Create
  <1>2. /\ ManagerTypeOK' /\ SameElsewhere(First(p))
        /\ session[First(p)] = "absent" /\ session'[First(p)] = "reserved"
        /\ transport' = transport /\ removal' = removal
    BY <1>1, ReserveMoves DEF Open
  <1>3. /\ pc' \in [Proxies -> Threads] /\ \A q \in Proxies \ {p} : pc'[q] = pc[q]
        /\ pc'[p].create = "spawn" /\ pc'[p].init = pc[p].init
        /\ pc'[p].respawn = pc[p].respawn /\ pc'[p].delete = pc[p].delete
    BY CreateMoves DEF Open, Create
  <1>4. /\ proxy' = proxy /\ probe' = probe /\ byUpstream' = byUpstream
        /\ byDownstream' = byDownstream \cup {First(p)}
    BY DEF Open
  <1>5. TypeOK'
    BY <1>1, <1>2, <1>3, <1>4 DEF TypeOK
  <1>6. Others(p)
    BY <1>2, <1>3, <1>4, Elsewhere, IdFacts DEF Others, Untouched, First
  <1>7. Sound(p)'
    <2>1. \A g \in Gens \ {1} : /\ session'[<<p, g>>] = session[<<p, g>>]
                               /\ transport'[<<p, g>>] = transport[<<p, g>>]
      BY <1>2, Elsewhere, IdFacts DEF First
    <2>2. Newer(p)'
      BY <1>1, <1>2, <1>3, <1>4, <2>1, Fields DEF Sound, Newer, First
    <2>3. ASSUME NEW g \in Gens PROVE Entry(p, g)'
      <3>1. Entry(p, g) /\ Newer(p) /\ pc'[p].respawn = pc[p].respawn
            /\ proxy'[p] = proxy[p]
        BY <1>3, <1>4 DEF Sound
      <3>i. proxy[p].id = 1
        BY <1>1, OnlyFirst
      <3>2. CASE g = 1
        BY <1>1, <1>2, <1>3, <3>1, <3>2, <3>i DEF Entry, First
      <3>3. CASE g # 1
        BY <1>1, <2>1, <1>3, <3>1, <3>3 DEF Entry
      <3> QED
        BY <3>2, <3>3
    <2> QED
      BY <1>1, <1>3, <1>4, <2>2, <2>3, FlagsSound, SoundParts
  <1> QED
    BY <1>5, <1>6, <1>7

LEMMA OpenFailsSteps ==
  ASSUME TypeOK, NEW p \in Proxies, Sound(p), OpenFails(p)
  PROVE  TypeOK' /\ Others(p) /\ Sound(p)'
  <1>1. ManagerTypeOK /\ First(p) \in Ids /\ pc[p].create = "spawn"
    BY Fields DEF TypeOK, OpenFails, Create
  <1>2. /\ ManagerTypeOK' /\ SameElsewhere(First(p))
        /\ session'[First(p)] = "absent" /\ transport' = transport /\ removal' = removal
    BY <1>1, SpawnFailsMoves DEF OpenFails
  <1>3. /\ pc' \in [Proxies -> Threads] /\ \A q \in Proxies \ {p} : pc'[q] = pc[q]
        /\ pc'[p].create = "failed" /\ pc'[p].init = pc[p].init
        /\ pc'[p].respawn = pc[p].respawn /\ pc'[p].delete = pc[p].delete
    BY CreateMoves DEF OpenFails, Create
  <1>4. /\ proxy' = proxy /\ probe' = probe /\ byUpstream' = byUpstream
        /\ byDownstream' = byDownstream \ {First(p)}
    BY DEF OpenFails
  <1>5. TypeOK'
    BY <1>1, <1>2, <1>3, <1>4 DEF TypeOK
  <1>6. Others(p)
    BY <1>2, <1>3, <1>4, Elsewhere, IdFacts DEF Others, Untouched, First
  <1>7. Sound(p)'
    <2>1. \A g \in Gens \ {1} : /\ session'[<<p, g>>] = session[<<p, g>>]
                               /\ transport'[<<p, g>>] = transport[<<p, g>>]
      BY <1>2, Elsewhere, IdFacts DEF First
    <2>2. Newer(p)'
      BY <1>1, <1>2, <1>3, <1>4, <2>1, Fields DEF Sound, Newer, First
    <2>3. ASSUME NEW g \in Gens PROVE Entry(p, g)'
      <3>1. Entry(p, g) /\ Newer(p) /\ pc'[p].respawn = pc[p].respawn
            /\ proxy'[p] = proxy[p]
        BY <1>3, <1>4 DEF Sound
      <3>i. proxy[p].id = 1
        BY <1>1, OnlyFirst
      <3>2. CASE g = 1
        BY <1>1, <1>2, <1>3, <3>1, <3>2, <3>i DEF Entry, First
      <3>3. CASE g # 1
        BY <1>1, <2>1, <1>3, <3>1, <3>3 DEF Entry
      <3> QED
        BY <3>2, <3>3
    <2> QED
      BY <1>1, <1>3, <1>4, <2>2, <2>3, FlagsSound, SoundParts
  <1> QED
    BY <1>5, <1>6, <1>7

LEMMA OpenedSteps ==
  ASSUME TypeOK, NEW p \in Proxies, Sound(p), Opened(p)
  PROVE  TypeOK' /\ Others(p) /\ Sound(p)'
  <1>1. ManagerTypeOK /\ First(p) \in Ids /\ pc[p].create = "spawn"
    BY Fields DEF TypeOK, Opened, Create
  <1>2. /\ ManagerTypeOK' /\ SameElsewhere(First(p))
        /\ session'[First(p)] = "held" /\ transport'[First(p)] = "open"
        /\ removal' = removal
    BY <1>1, SpawnedMoves DEF Opened
  <1>3. /\ pc' \in [Proxies -> Threads] /\ \A q \in Proxies \ {p} : pc'[q] = pc[q]
        /\ pc'[p].create = "attach" /\ pc'[p].init = pc[p].init
        /\ pc'[p].respawn = pc[p].respawn /\ pc'[p].delete = pc[p].delete
    BY CreateMoves DEF Opened, Create
  <1>4. /\ proxy' = proxy /\ probe' = probe /\ byUpstream' = byUpstream
        /\ byDownstream' = byDownstream
    BY DEF Opened, proxyVars, indexVars
  <1>5. TypeOK'
    BY <1>1, <1>2, <1>3, <1>4 DEF TypeOK
  <1>6. Others(p)
    BY <1>2, <1>3, <1>4, Elsewhere, IdFacts DEF Others, Untouched, First
  <1>7. Sound(p)'
    <2>1. \A g \in Gens \ {1} : /\ session'[<<p, g>>] = session[<<p, g>>]
                               /\ transport'[<<p, g>>] = transport[<<p, g>>]
      BY <1>2, Elsewhere, IdFacts DEF First
    <2>2. Newer(p)'
      BY <1>1, <1>2, <1>3, <1>4, <2>1, Fields DEF Sound, Newer, First
    <2>3. ASSUME NEW g \in Gens PROVE Entry(p, g)'
      <3>1. Entry(p, g) /\ Newer(p) /\ pc'[p].respawn = pc[p].respawn
            /\ proxy'[p] = proxy[p]
        BY <1>3, <1>4 DEF Sound
      <3>i. proxy[p].id = 1
        BY <1>1, OnlyFirst
      <3>2. CASE g = 1
        BY <1>1, <1>2, <1>3, <3>1, <3>2, <3>i DEF Entry, First
      <3>3. CASE g # 1
        BY <1>1, <2>1, <1>3, <3>1, <3>3 DEF Entry
      <3> QED
        BY <3>2, <3>3
    <2> QED
      BY <1>1, <1>3, <1>4, <2>2, <2>3, FlagsSound, SoundParts
  <1> QED
    BY <1>5, <1>6, <1>7

(* A step that generates no id, takes no place and opens no connection.    *)
Quiet(p) ==
  /\ proxy'[p].id = proxy[p].id /\ proxy'[p].gens = proxy[p].gens
  /\ proxy'[p].old = proxy[p].old
  /\ pc'[p].respawn = pc[p].respawn
  /\ pc'[p].create \in {"none", "spawn"} => pc'[p].create = pc[p].create
  /\ pc[p].create = "spawn" => pc'[p].create = "spawn"
  /\ \A g \in Gens :
       /\ transport'[<<p, g>>] = "open" => transport[<<p, g>>] = "open"
       /\ session'[<<p, g>>] \in {session[<<p, g>>], "absent"}

LEMMA QuietSound ==
  ASSUME NEW p \in Proxies, Sound(p), Quiet(p)
  PROVE  Newer(p)' /\ \A g \in Gens : Entry(p, g)'
  <1>1. Newer(p) /\ \A g \in Gens : Entry(p, g)
    BY DEF Sound
  <1>2. Newer(p)'
    BY <1>1 DEF Newer, Quiet
  <1>3. ASSUME NEW g \in Gens PROVE Entry(p, g)'
    BY <1>1 DEF Entry, Quiet
  <1> QED
    BY <1>2, <1>3

(* The close keeps the flags in step, whichever thread moves with it.      *)
LEMMA ClosedFlags ==
  ASSUME NEW p \in Proxies, Sound(p), proxy'[p].once, proxy'[p].closed,
         ~proxy'[p].counted, proxy'[p].upstream = proxy[p].upstream,
         pc'[p].init # "none" => pc[p].init # "none",
         pc[p].create = "serving" => pc'[p].create = "serving"
  PROVE  OnceClosed(p)' /\ Credited(p)'
  BY DEF Sound, OnceClosed, Credited, Live

(* What the close and the removal do beside the thread that runs them.     *)
LEMMA CloseTypes ==
  ASSUME TypeOK, NEW p \in Proxies, Sound(p), CloseDownstream(p), ManagerTypeOK',
         \A q \in Proxies \ {p} : \A g \in Gens :
           /\ session'[<<q, g>>] = session[<<q, g>>]
           /\ transport'[<<q, g>>] = transport[<<q, g>>]
           /\ removal'[<<q, g>>] = removal[<<q, g>>]
           /\ probe'[<<q, g>>] = probe[<<q, g>>],
         probe' \in [Ids -> {"off", "on", "tripped"}], pc' \in [Proxies -> Threads],
         \A q \in Proxies \ {p} : pc'[q] = pc[q]
  PROVE  TypeOK' /\ Others(p)
  <1>1. /\ proxy' \in [Proxies -> Proxy]
        /\ \A q \in Proxies \ {p} : proxy'[q] = proxy[q]
        /\ proxy'[p].once /\ proxy'[p].ds = 0
        /\ byDownstream' = byDownstream \ {Current(p)}
        /\ byUpstream' \in {byUpstream, byUpstream \ {p}}
    BY Closing
  <1>2. TypeOK'
    BY <1>1 DEF TypeOK
  <1>3. Others(p)
    BY <1>1 DEF Others, Untouched, Current
  <1> QED
    BY <1>2, <1>3

RemovedOne(p) ==
  /\ transport' = transport
  /\ \A g \in Gens : session'[<<p, g>>] \in {session[<<p, g>>], "absent"}

LEMMA RemoveTypes ==
  ASSUME TypeOK, NEW p \in Proxies, NEW g \in Gens,
         RemoveSession(<<p, g>>), UNCHANGED proxyVars,
         probe' \in [Ids -> {"off", "on", "tripped"}], pc' \in [Proxies -> Threads],
         \A q \in Proxies \ {p} : /\ pc'[q] = pc[q]
                                  /\ \A h \in Gens : probe'[<<q, h>>] = probe[<<q, h>>]
  PROVE  TypeOK' /\ Others(p) /\ RemovedOne(p)
  <1>1. <<p, g>> \in Ids /\ ManagerTypeOK
    BY IdFacts DEF TypeOK
  <1>2. /\ ManagerTypeOK' /\ SameElsewhere(<<p, g>>) /\ transport' = transport
        /\ session'[<<p, g>>] \in {session[<<p, g>>], "absent"}
    BY <1>1, RemoveSessionMoves
  <1>3. proxy' = proxy /\ byDownstream' = byDownstream /\ byUpstream' = byUpstream
    BY DEF proxyVars, indexVars
  <1>4. TypeOK'
    BY <1>2, <1>3 DEF TypeOK
  <1>5. Others(p)
    BY <1>2, <1>3, Elsewhere DEF Others, Untouched
  <1>6. RemovedOne(p)
    BY <1>2, Elsewhere DEF RemovedOne
  <1> QED
    BY <1>4, <1>5, <1>6

LEMMA AttachSteps ==
  ASSUME TypeOK, NEW p \in Proxies, Sound(p), Attach(p)
  PROVE  TypeOK' /\ Others(p) /\ Sound(p)'
  <1>1. /\ pc' \in [Proxies -> Threads] /\ \A q \in Proxies \ {p} : pc'[q] = pc[q]
        /\ pc[p].create = "attach" /\ pc'[p].create = "list"
        /\ pc'[p].init = pc[p].init /\ pc'[p].respawn = pc[p].respawn
    BY CreateMoves DEF Attach, Create
  <1>2. /\ session' = session /\ transport' = transport /\ removal' = removal
        /\ byDownstream' = byDownstream /\ byUpstream' = byUpstream /\ probe' = probe
    BY DEF Attach, managerVars, indexVars
  <1> DEFINE d == IF proxy[p].closed THEN proxy[p].ds ELSE 1
             r == [proxy[p] EXCEPT !.ds = d]
  <1>0. proxy[p].ds \in 0 .. MaxGens
    BY Fields
  <1>o. 1 \in 0 .. MaxGens
    BY ConstantsAssumption
  <1>3. proxy \in [Proxies -> Proxy] /\ proxy[p] \in Proxy /\ d \in 0 .. MaxGens
    BY <1>0, <1>o, Fields
  <1>c. (proxy[p].closed => proxy[p].once /\ d = 0) /\ (~proxy[p].closed => d = 1)
    BY Fields
  <1>4. proxy' = [proxy EXCEPT ![p] = r]
    BY <1>3 DEF Attach
  <1> HIDE DEF d
  <1>5. r \in Proxy
    BY <1>3, Zenon DEF Proxy
  <1>6. /\ r.id = proxy[p].id /\ r.gens = proxy[p].gens /\ r.old = proxy[p].old
        /\ r.once = proxy[p].once /\ r.closed = proxy[p].closed
        /\ r.upstream = proxy[p].upstream /\ r.counted = proxy[p].counted
        /\ r.closed => r.once /\ r.ds = 0
        /\ ~r.closed => r.ds # 0
    BY <1>3, <1>c DEF Proxy
  <1> HIDE DEF r
  <1>7. /\ proxy' \in [Proxies -> Proxy] /\ proxy'[p] = r
        /\ \A q \in Proxies \ {p} : proxy'[q] = proxy[q]
    BY <1>3, <1>4, <1>5
  <1>8. TypeOK'
    BY <1>1, <1>2, <1>6, <1>7 DEF TypeOK, ManagerTypeOK
  <1>9. Others(p)
    BY <1>1, <1>2, <1>7 DEF Others, Untouched
  <1>10. Sound(p)'
    <2>1. OnceClosed(p)' /\ Credited(p)'
      BY <1>1, <1>6, <1>7 DEF Sound, OnceClosed, Credited, Live
    <2>2. Quiet(p)
      BY <1>1, <1>2, <1>6, <1>7 DEF Quiet
    <2> QED
      BY <2>1, <2>2, QuietSound, SoundParts
  <1> QED
    BY <1>8, <1>9, <1>10

LEMMA ListedSteps ==
  ASSUME TypeOK, NEW p \in Proxies, Sound(p), Listed(p)
  PROVE  TypeOK' /\ Others(p) /\ Sound(p)'
  <1>1. /\ pc' \in [Proxies -> Threads] /\ \A q \in Proxies \ {p} : pc'[q] = pc[q]
        /\ pc[p].create = "list" /\ pc'[p].create = "serving"
        /\ pc'[p].init = pc[p].init /\ pc'[p].respawn = pc[p].respawn
    BY CreateMoves DEF Listed, Create
  <1>2. /\ session' = session /\ transport' = transport /\ removal' = removal
        /\ byDownstream' = byDownstream /\ byUpstream' = byUpstream /\ proxy' = proxy
        /\ probe' = [probe EXCEPT ![First(p)] = "on"]
    BY DEF Listed, managerVars, proxyVars, indexVars
  <1>3. TypeOK'
    BY <1>1, <1>2, Fields DEF TypeOK, ManagerTypeOK
  <1>4. Others(p)
    BY <1>1, <1>2, IdFacts DEF Others, Untouched, First, TypeOK
  <1>5. Sound(p)'
    <2>1. Quiet(p)
      BY <1>1, <1>2 DEF Quiet
    <2> QED
      BY <1>1, <1>2, <2>1, FlagsSound, QuietSound, SoundParts
  <1> QED
    BY <1>3, <1>4, <1>5

LEMMA ListFailsSteps ==
  ASSUME TypeOK, NEW p \in Proxies, Sound(p), ListFails(p)
  PROVE  TypeOK' /\ Others(p) /\ Sound(p)'
  <1>1. /\ pc' \in [Proxies -> Threads] /\ \A q \in Proxies \ {p} : pc'[q] = pc[q]
        /\ pc[p].create = "list" /\ pc'[p].create = "undo"
        /\ pc'[p].init = pc[p].init /\ pc'[p].respawn = pc[p].respawn
    BY CreateMoves DEF ListFails, Create
  <1>2. /\ session' = session /\ transport' = transport /\ removal' = removal
        /\ probe' = probe /\ CloseDownstream(p)
    BY DEF ListFails, managerVars
  <1>3. TypeOK' /\ Others(p)
    <2>1. ManagerTypeOK' /\ probe' \in [Ids -> {"off", "on", "tripped"}]
      BY <1>2 DEF TypeOK, ManagerTypeOK
    <2> QED
      BY <1>1, <1>2, <2>1, CloseTypes
  <1>4. Sound(p)'
    <2>1. Quiet(p)
      BY <1>1, <1>2, Closing DEF Quiet
    <2> QED
      BY <1>1, <1>2, <2>1, Closing, ClosedFlags, QuietSound, SoundParts
  <1> QED
    BY <1>3, <1>4

LEMMA UndoSteps ==
  ASSUME TypeOK, NEW p \in Proxies, Sound(p), Undo(p)
  PROVE  TypeOK' /\ Others(p) /\ Sound(p)'
  <1>1. /\ pc' \in [Proxies -> Threads] /\ \A q \in Proxies \ {p} : pc'[q] = pc[q]
        /\ pc[p].create = "undo" /\ pc'[p].create = "failed"
        /\ pc'[p].init = pc[p].init /\ pc'[p].respawn = pc[p].respawn
    BY CreateMoves DEF Undo, Create
  <1>2. /\ byDownstream' = byDownstream /\ byUpstream' = byUpstream /\ proxy' = proxy
        /\ probe' = probe /\ RemoveSession(First(p))
    BY DEF Undo, proxyVars, indexVars
  <1>3. TypeOK' /\ Others(p) /\ RemovedOne(p)
    <2>1. probe' \in [Ids -> {"off", "on", "tripped"}]
      BY <1>2 DEF TypeOK
    <2>2. RemoveSession(<<p, 1>>) /\ UNCHANGED proxyVars /\ 1 \in Gens
      BY <1>2, IdFacts DEF First, proxyVars, indexVars
    <2> QED
      BY <1>1, <1>2, <2>1, <2>2, RemoveTypes
  <1>4. Sound(p)'
    <2>1. Quiet(p)
      BY <1>1, <1>2, <1>3 DEF Quiet, RemovedOne
    <2> QED
      BY <1>1, <1>2, <2>1, FlagsSound, QuietSound, SoundParts
  <1> QED
    BY <1>3, <1>4

---------------------------------------------------------------------------
(* The handler of notifications/initialized.                               *)
LEMMA InitializedSteps ==
  ASSUME TypeOK, NEW p \in Proxies, Sound(p), Initialized(p)
  PROVE  TypeOK' /\ Others(p) /\ Sound(p)'
  <1>1. /\ pc' \in [Proxies -> Threads] /\ \A q \in Proxies \ {p} : pc'[q] = pc[q]
        /\ pc[p].create = "serving" /\ pc'[p].create = "serving"
        /\ pc[p].init = "none" /\ pc'[p].init = "credit"
        /\ pc'[p].respawn = pc[p].respawn
    BY InitMoves DEF Initialized, InitStep
  <1>2. /\ session' = session /\ transport' = transport /\ removal' = removal
        /\ byDownstream' = byDownstream /\ byUpstream' = byUpstream /\ probe' = probe
    BY DEF Initialized, managerVars, indexVars
  <1> DEFINE r == [proxy[p] EXCEPT !.upstream = TRUE]
  <1>3. proxy \in [Proxies -> Proxy] /\ proxy[p] \in Proxy
    BY Fields
  <1>4. proxy' = [proxy EXCEPT ![p] = r]
    BY <1>3 DEF Initialized
  <1>5. r \in Proxy
    BY <1>3, Zenon DEF Proxy
  <1>6. /\ r.id = proxy[p].id /\ r.gens = proxy[p].gens /\ r.old = proxy[p].old
        /\ r.once = proxy[p].once /\ r.closed = proxy[p].closed /\ r.ds = proxy[p].ds
        /\ r.counted = proxy[p].counted /\ r.upstream
    BY <1>3 DEF Proxy
  <1> HIDE DEF r
  <1>7. /\ proxy' \in [Proxies -> Proxy] /\ proxy'[p] = r
        /\ \A q \in Proxies \ {p} : proxy'[q] = proxy[q]
    BY <1>3, <1>4, <1>5
  <1>8. TypeOK'
    BY <1>1, <1>2, <1>6, <1>7 DEF TypeOK, ManagerTypeOK
  <1>9. Others(p)
    BY <1>1, <1>2, <1>7 DEF Others, Untouched
  <1>10. Sound(p)'
    <2>1. OnceClosed(p)' /\ Credited(p)'
      BY <1>1, <1>6, <1>7 DEF Sound, OnceClosed, Credited, Live
    <2>2. Quiet(p)
      BY <1>1, <1>2, <1>6, <1>7 DEF Quiet
    <2> QED
      BY <2>1, <2>2, QuietSound, SoundParts
  <1> QED
    BY <1>8, <1>9, <1>10

LEMMA CreditSteps ==
  ASSUME TypeOK, NEW p \in Proxies, Sound(p), Credit(p)
  PROVE  TypeOK' /\ Others(p) /\ Sound(p)'
  <1> DEFINE to == IF Live(p) THEN "publish" ELSE "publishDead"
  <1>0. /\ to \in {"none", "credit", "publish", "publishDead", "recheck", "lost", "done"}
        /\ to # "none" /\ pc[p].init = "credit"
        /\ pc' = [pc EXCEPT ![p].init = to]
    BY DEF Credit, InitStep
  <1> HIDE DEF to
  <1>1. /\ pc' \in [Proxies -> Threads] /\ \A q \in Proxies \ {p} : pc'[q] = pc[q]
        /\ pc'[p].create = pc[p].create /\ pc'[p].init # "none"
        /\ pc'[p].respawn = pc[p].respawn
    BY <1>0, InitMoves
  <1>2. /\ session' = session /\ transport' = transport /\ removal' = removal
        /\ byDownstream' = byDownstream /\ byUpstream' = byUpstream /\ probe' = probe
    BY DEF Credit, managerVars, indexVars
  <1> DEFINE c == proxy[p].counted \/ Live(p)
             r == [proxy[p] EXCEPT !.counted = c]
  <1>3. proxy \in [Proxies -> Proxy] /\ proxy[p] \in Proxy
    BY Fields
  <1>b. c \in BOOLEAN
    OBVIOUS
  <1>c. c <=> Live(p)
    BY DEF Sound, Credited
  <1>4. proxy' = [proxy EXCEPT ![p] = r]
    BY <1>3 DEF Credit
  <1> HIDE DEF c
  <1>5. r \in Proxy
    BY <1>3, <1>b, Zenon DEF Proxy
  <1>6. /\ r.id = proxy[p].id /\ r.gens = proxy[p].gens /\ r.old = proxy[p].old
        /\ r.once = proxy[p].once /\ r.closed = proxy[p].closed /\ r.ds = proxy[p].ds
        /\ r.upstream = proxy[p].upstream
    BY <1>3 DEF Proxy
  <1>r. r.counted = c
    BY <1>3, Zenon DEF Proxy
  <1> HIDE DEF r
  <1>7. /\ proxy' \in [Proxies -> Proxy] /\ proxy'[p] = r
        /\ \A q \in Proxies \ {p} : proxy'[q] = proxy[q]
    BY <1>3, <1>4, <1>5
  <1>8. TypeOK'
    BY <1>1, <1>2, <1>6, <1>7 DEF TypeOK, ManagerTypeOK
  <1>9. Others(p)
    BY <1>1, <1>2, <1>7 DEF Others, Untouched
  <1>10. Sound(p)'
    <2>1. OnceClosed(p)' /\ Credited(p)'
      BY <1>0, <1>1, <1>6, <1>r, <1>c, <1>7 DEF Sound, OnceClosed, Credited, Live
    <2>2. Quiet(p)
      BY <1>1, <1>2, <1>6, <1>7 DEF Quiet
    <2> QED
      BY <2>1, <2>2, QuietSound, SoundParts
  <1> QED
    BY <1>8, <1>9, <1>10

LEMMA PublishSteps ==
  ASSUME TypeOK, NEW p \in Proxies, Sound(p), Publish(p) \/ Recheck(p)
  PROVE  TypeOK' /\ Others(p) /\ Sound(p)'
  <1>0. PICK to \in {"done", "recheck", "lost"} :
          /\ pc' = [pc EXCEPT ![p].init = to]
          /\ to # "lost" \/ ~Live(p)
          /\ \/ pc[p].init = "publish" /\ to = "recheck"
             \/ pc[p].init = "publishDead" /\ to = "done"
             \/ pc[p].init = "recheck" /\ to \in {"done", "lost"}
    BY DEF Publish, Recheck, InitStep
  <1>1. /\ pc' \in [Proxies -> Threads] /\ \A q \in Proxies \ {p} : pc'[q] = pc[q]
        /\ pc'[p].create = pc[p].create /\ pc'[p].init = to
        /\ pc'[p].respawn = pc[p].respawn
    BY <1>0, InitMoves
  <1>2. /\ session' = session /\ transport' = transport /\ removal' = removal
        /\ proxy' = proxy /\ probe' = probe
        /\ byDownstream' \in {byDownstream, byDownstream \cup {Current(p)}}
        /\ byUpstream' \in {byUpstream, byUpstream \cup {p}}
    BY DEF Publish, Recheck, managerVars, proxyVars, indexVars
  <1>3. TypeOK'
    BY <1>1, <1>2, Fields DEF TypeOK, ManagerTypeOK
  <1>4. Others(p)
    BY <1>1, <1>2 DEF Others, Untouched, Current
  <1>5. Sound(p)'
    <2>1. OnceClosed(p)' /\ Credited(p)'
      BY <1>0, <1>1, <1>2 DEF Sound, OnceClosed, Credited, Live
    <2>2. Quiet(p)
      BY <1>1, <1>2 DEF Quiet
    <2> QED
      BY <2>1, <2>2, QuietSound, SoundParts
  <1> QED
    BY <1>3, <1>4, <1>5

---------------------------------------------------------------------------
(* The threads that close a proxy session: the handlers of initialized and *)
(* of DELETE, a probe, a removal.                                          *)
LEMMA ClosingSteps ==
  ASSUME TypeOK, NEW p \in Proxies, Sound(p),
         \/ LostRace(p) \/ DeleteCloses(p)
         \/ \E g \in Gens : ProbeCloses(<<p, g>>) \/ Gate(<<p, g>>)
  PROVE  TypeOK' /\ Others(p) /\ Sound(p)'
  <1>1. /\ pc' \in [Proxies -> Threads] /\ \A q \in Proxies \ {p} : pc'[q] = pc[q]
        /\ pc'[p].create = pc[p].create /\ pc'[p].respawn = pc[p].respawn
        /\ pc'[p].init # "none" => pc[p].init # "none"
    <2>1. CASE LostRace(p)
      BY <2>1, InitMoves DEF LostRace, InitStep
    <2>2. CASE DeleteCloses(p)
      BY <2>2, DeleteMoves DEF DeleteCloses, DeleteStep
    <2>3. CASE \E g \in Gens : ProbeCloses(<<p, g>>) \/ Gate(<<p, g>>)
      BY <2>3 DEF ProbeCloses, Gate, TypeOK
    <2> QED
      BY <2>1, <2>2, <2>3
  <1>2. CloseDownstream(p)
    BY DEF LostRace, DeleteCloses, ProbeCloses, Gate
  <1> DEFINE Rest ==
        /\ session' = session /\ transport' = transport /\ ManagerTypeOK'
        /\ probe' \in [Ids -> {"off", "on", "tripped"}]
        /\ \A q \in Proxies \ {p} : \A g \in Gens :
             /\ removal'[<<q, g>>] = removal[<<q, g>>]
             /\ probe'[<<q, g>>] = probe[<<q, g>>]
  <1>3. Rest
    <2>1. CASE LostRace(p) \/ DeleteCloses(p)
      BY <2>1 DEF LostRace, DeleteCloses, TypeOK, ManagerTypeOK, managerVars
    <2>2. ASSUME NEW g \in Gens, ProbeCloses(<<p, g>>)
          PROVE Rest
      BY <2>2, IdFacts DEF ProbeCloses, TypeOK, ManagerTypeOK, managerVars
    <2>3. ASSUME NEW g \in Gens, Gate(<<p, g>>)
          PROVE Rest
      BY <2>3, IdFacts DEF Gate, Gated, TypeOK, ManagerTypeOK
    <2> QED
      BY <2>1, <2>2, <2>3
  <1>4. TypeOK' /\ Others(p)
    BY <1>1, <1>2, <1>3, CloseTypes
  <1>5. Sound(p)'
    <2>1. Quiet(p)
      BY <1>1, <1>2, <1>3, Closing DEF Quiet
    <2> QED
      BY <1>1, <1>2, <2>1, Closing, ClosedFlags, QuietSound, SoundParts
  <1> QED
    BY <1>4, <1>5

(* The other steps of the handler of DELETE, and of a probe.               *)
LEMMA DeleteSteps ==
  ASSUME TypeOK, NEW p \in Proxies, Sound(p), Delete(p)
  PROVE  TypeOK' /\ Others(p) /\ Sound(p)'
  <1>1. /\ pc' \in [Proxies -> Threads] /\ \A q \in Proxies \ {p} : pc'[q] = pc[q]
        /\ pc'[p].create = pc[p].create /\ pc'[p].init = pc[p].init
        /\ pc'[p].respawn = pc[p].respawn
    BY DeleteMoves DEF Delete, DeleteStep
  <1>2. UNCHANGED <<session, transport, removal, proxy, byDownstream, byUpstream, probe>>
    BY DEF Delete, managerVars, proxyVars, indexVars
  <1>3. TypeOK' /\ Others(p)
    BY <1>1, <1>2 DEF TypeOK, ManagerTypeOK, Others, Untouched
  <1>4. Quiet(p)
    BY <1>1, <1>2 DEF Quiet
  <1> QED
    BY <1>1, <1>2, <1>3, <1>4, FlagsSound, QuietSound, SoundParts

LEMMA DeleteRemovesSteps ==
  ASSUME TypeOK, NEW p \in Proxies, Sound(p), DeleteRemoves(p)
  PROVE  TypeOK' /\ Others(p) /\ Sound(p)'
  <1>1. /\ pc' \in [Proxies -> Threads] /\ \A q \in Proxies \ {p} : pc'[q] = pc[q]
        /\ pc'[p].create = pc[p].create /\ pc'[p].init = pc[p].init
        /\ pc'[p].respawn = pc[p].respawn
    BY DeleteMoves DEF DeleteRemoves, DeleteStep
  <1>2. /\ proxy' = proxy /\ probe' = probe /\ UNCHANGED proxyVars
        /\ RemoveSession(<<p, proxy[p].id>>)
    BY DEF DeleteRemoves, proxyVars, Current
  <1>3. TypeOK' /\ Others(p) /\ RemovedOne(p)
    <2>1. probe' \in [Ids -> {"off", "on", "tripped"}] /\ proxy[p].id \in Gens
      BY <1>2, Fields DEF TypeOK
    <2> QED
      BY <1>1, <1>2, <2>1, RemoveTypes
  <1>4. Quiet(p)
    BY <1>1, <1>2, <1>3 DEF Quiet, RemovedOne
  <1> QED
    BY <1>1, <1>2, <1>3, <1>4, FlagsSound, QuietSound, SoundParts

LEMMA ProbeSteps ==
  ASSUME TypeOK, NEW p \in Proxies, Sound(p), NEW g \in Gens,
         ProbeTrips(<<p, g>>) \/ ProbeEnds(<<p, g>>)
  PROVE  TypeOK' /\ Others(p) /\ Sound(p)'
  <1>1. PICK v \in {"off", "tripped"} : probe' = [probe EXCEPT ![<<p, g>>] = v]
    BY DEF ProbeTrips, ProbeEnds
  <1>2. UNCHANGED <<session, transport, removal, proxy, byDownstream, byUpstream, pc>>
    BY DEF ProbeTrips, ProbeEnds, managerVars, proxyVars, indexVars
  <1>3. TypeOK' /\ Others(p)
    BY <1>1, <1>2, IdFacts DEF TypeOK, ManagerTypeOK, Others, Untouched
  <1>4. Quiet(p)
    BY <1>2 DEF Quiet
  <1> QED
    BY <1>2, <1>3, <1>4, FlagsSound, QuietSound, SoundParts

---------------------------------------------------------------------------
(* Removals.                                                               *)
LEMMA RemovalSteps ==
  ASSUME TypeOK, NEW p \in Proxies, Sound(p), NEW g \in Gens,
         Reap(<<p, g>>) \/ Notify(<<p, g>>) \/ Shut(<<p, g>>)
  PROVE  TypeOK' /\ Others(p) /\ Sound(p)'
  <1>0. ManagerTypeOK /\ <<p, g>> \in Ids
    BY IdFacts DEF TypeOK
  <1>1. /\ ManagerTypeOK' /\ SameElsewhere(<<p, g>>)
        /\ transport'[<<p, g>>] \in {transport[<<p, g>>], "closed"}
        /\ session'[<<p, g>>] \in {session[<<p, g>>], "absent"}
    <2>1. CASE Reap(<<p, g>>)
      BY <1>0, <2>1, RemoveSessionMoves DEF Reap, ReapExpiredSession, RemoveSession
    <2>2. CASE Notify(<<p, g>>) \/ Shut(<<p, g>>)
      <3>1. PICK step \in {"gate", "close"} :
              Notified(<<p, g>>, step) \/ CloseTransport(<<p, g>>)
        BY <2>2 DEF Notify, Shut
      <3> QED
        BY <1>0, <3>1, RemovalMoves
    <2> QED
      BY <2>1, <2>2
  <1>2. /\ proxy' = proxy /\ pc' = pc /\ probe' = probe /\ byUpstream' = byUpstream
        /\ byDownstream' \in {byDownstream, byDownstream \ {<<p, g>>}}
    BY DEF Reap, Notify, Shut, proxyVars, indexVars
  <1>3. TypeOK'
    BY <1>1, <1>2 DEF TypeOK
  <1>4. Others(p)
    BY <1>1, <1>2, Elsewhere DEF Others, Untouched
  <1>5. Quiet(p)
    BY <1>1, <1>2, Elsewhere DEF Quiet
  <1> QED
    BY <1>2, <1>3, <1>4, <1>5, FlagsSound, QuietSound, SoundParts

(* The owner of the listener takes every session out at once.              *)
LEMMA CloseListenerSteps ==
  ASSUME IInv, CloseListener
  PROVE  IInv'
  <1>1. ManagerTypeOK' /\ transport' = transport /\ \A i \in Ids : session'[i] = "absent"
    BY TakeOutMoves DEF IInv, TypeOK, CloseListener, CloseAll
  <1>2. UNCHANGED <<proxy, byDownstream, byUpstream, pc, probe>>
    BY DEF CloseListener, proxyVars, indexVars
  <1>3. TypeOK'
    BY <1>1, <1>2 DEF IInv, TypeOK
  <1>4. ASSUME NEW p \in Proxies PROVE Sound(p)'
    <2>1. Quiet(p)
      BY <1>1, <1>2, IdFacts DEF Quiet
    <2> QED
      BY <1>2, <2>1, FlagsSound, QuietSound, SoundParts DEF IInv
  <1> QED
    BY <1>3, <1>4 DEF IInv

---------------------------------------------------------------------------
(* The respawn.  While one is under way the constructor is past the spawn, *)
(* so the only reserved entry is that of the respawn's own.                *)
LEMMA Respawning ==
  ASSUME TypeOK, NEW p \in Proxies, Sound(p), pc[p].respawn # "none"
  PROVE  /\ pc[p].create \notin {"none", "spawn"}
         /\ pc[p].respawn # "spawn" => \A g \in Gens : session[<<p, g>>] # "reserved"
         /\ \A g \in Gens :
              session[<<p, g>>] # "absent" =>
                \/ g = proxy[p].id
                \/ g = proxy[p].gens /\ pc[p].respawn \in {"spawn", "rekey", "list"}
                \/ g = proxy[p].old /\ pc[p].respawn = "retire"
  <1>1. pc[p].create \notin {"none", "spawn"}
    BY DEF Sound, Newer
  <1> QED
    BY <1>1 DEF Sound, Entry

LEMMA RespawnSteps ==
  ASSUME TypeOK, NEW p \in Proxies, Sound(p), Respawn(p)
  PROVE  TypeOK' /\ Others(p) /\ Sound(p)'
  <1> DEFINE n == proxy[p].gens + 1
             r == [proxy[p] EXCEPT !.gens = n,
                                   !.overtaken = proxy[p].overtaken \/ pc[p].create = "attach"]
  <1>1. /\ pc' \in [Proxies -> Threads] /\ \A q \in Proxies \ {p} : pc'[q] = pc[q]
        /\ pc'[p].create = pc[p].create /\ pc'[p].init = pc[p].init
        /\ pc[p].respawn = "none" /\ pc'[p].respawn = "spawn"
    BY RespawnMoves DEF Respawn, RespawnStep
  <1>2. pc[p].create \notin {"none", "spawn"}
    BY OnlyFirst, IdFacts DEF Respawn, Requested, Gens
  <1>3. /\ proxy[p].gens \in 1 .. MaxGens /\ proxy[p].gens < MaxGens /\ MaxGens \in Nat
        /\ proxy[p].id \in 1 .. MaxGens
    BY Fields, IdFacts DEF Respawn, Gens
  <1>4. n \in 1 .. MaxGens /\ n \in Gens /\ proxy[p].id < n
    <2>1. proxy[p].id <= proxy[p].gens
      BY DEF Sound, Newer
    <2> QED
      BY <1>3, <2>1 DEF Gens
  <1>5. proxy' = [proxy EXCEPT ![p] = r] /\ proxy \in [Proxies -> Proxy] /\ proxy[p] \in Proxy
    BY Fields DEF Respawn
  <1>6. /\ byDownstream' = byDownstream /\ byUpstream' = byUpstream /\ probe' = probe
        /\ Reserve(<<p, n>>)
    BY DEF Respawn, indexVars
  <1> HIDE DEF n
  <1>7. r \in Proxy
    BY <1>4, <1>5, Zenon DEF Proxy
  <1>8. /\ r.id = proxy[p].id /\ r.gens = n /\ r.old = proxy[p].old
        /\ r.once = proxy[p].once /\ r.closed = proxy[p].closed /\ r.ds = proxy[p].ds
        /\ r.upstream = proxy[p].upstream /\ r.counted = proxy[p].counted
    BY <1>5 DEF Proxy
  <1> HIDE DEF r
  <1>9. /\ proxy' \in [Proxies -> Proxy] /\ proxy'[p] = r
        /\ \A q \in Proxies \ {p} : proxy'[q] = proxy[q]
    BY <1>5, <1>7
  <1>10. ManagerTypeOK /\ <<p, n>> \in Ids
    BY <1>4, IdFacts DEF TypeOK
  <1>11. /\ ManagerTypeOK' /\ SameElsewhere(<<p, n>>)
         /\ session[<<p, n>>] = "absent" /\ session'[<<p, n>>] = "reserved"
         /\ transport' = transport /\ removal' = removal
    BY <1>6, <1>10, ReserveMoves
  <1>12. TypeOK'
    BY <1>1, <1>6, <1>8, <1>9, <1>11 DEF TypeOK
  <1>13. Others(p)
    BY <1>1, <1>4, <1>6, <1>9, <1>11, Elsewhere DEF Others, Untouched
  <1>14. Sound(p)'
    <2>1. OnceClosed(p)' /\ Credited(p)'
      BY <1>1, <1>8, <1>9 DEF Sound, OnceClosed, Credited, Live
    <2>2. Newer(p)'
      BY <1>1, <1>2, <1>3, <1>4, <1>8, <1>9 DEF Newer
    <2>3. ASSUME NEW g \in Gens PROVE Entry(p, g)'
      <3>1. Entry(p, g)
        BY DEF Sound
      <3>2. CASE g = n
        BY <1>1, <1>8, <1>9, <3>2 DEF Entry
      <3>3. CASE g # n
        <4>1. session'[<<p, g>>] = session[<<p, g>>]
          BY <1>4, <1>11, <3>3, Elsewhere
        <4> QED
          BY <1>1, <1>2, <1>8, <1>9, <3>1, <4>1 DEF Entry
      <3> QED
        BY <3>2, <3>3
    <2> QED
      BY <2>1, <2>2, <2>3, SoundParts
  <1> QED
    BY <1>12, <1>13, <1>14

LEMMA RespawnedSteps ==
  ASSUME TypeOK, NEW p \in Proxies, Sound(p), RespawnFails(p) \/ Respawned(p)
  PROVE  TypeOK' /\ Others(p) /\ Sound(p)'
  <1> DEFINE n == proxy[p].gens
  <1>1. PICK to \in {"none", "rekey"} :
          /\ pc[p].respawn = "spawn" /\ pc' = [pc EXCEPT ![p].respawn = to]
          /\ to = "none" => SpawnFails(<<p, n>>)
          /\ to = "rekey" => Spawned(<<p, n>>)
    BY DEF RespawnFails, Respawned, RespawnStep, Newest
  <1>2. /\ pc' \in [Proxies -> Threads] /\ \A q \in Proxies \ {p} : pc'[q] = pc[q]
        /\ pc'[p].create = pc[p].create /\ pc'[p].init = pc[p].init
        /\ pc'[p].respawn = to
    BY <1>1, RespawnMoves
  <1>3. UNCHANGED <<proxy, byDownstream, byUpstream, probe>>
    BY DEF RespawnFails, Respawned, proxyVars, indexVars
  <1>4. ManagerTypeOK /\ <<p, n>> \in Ids /\ n \in Gens
    BY Fields DEF TypeOK, Newest
  <1>5. /\ ManagerTypeOK' /\ SameElsewhere(<<p, n>>)
        /\ to = "none" => session'[<<p, n>>] = "absent"
        /\ to = "rekey" => session'[<<p, n>>] = "held"
    BY <1>1, <1>4, SpawnFailsMoves, SpawnedMoves
  <1>6. TypeOK'
    BY <1>2, <1>3, <1>5 DEF TypeOK
  <1>7. Others(p)
    BY <1>2, <1>3, <1>4, <1>5, Elsewhere DEF Others, Untouched
  <1>8. Sound(p)'
    <2>1. pc[p].create \notin {"none", "spawn"}
      BY <1>1, Respawning
    <2>2. Newer(p) /\ \A g \in Gens : Entry(p, g)
      BY DEF Sound
    <2>3. Newer(p)'
      BY <1>1, <1>2, <1>3, <2>1, <2>2 DEF Newer
    <2>4. ASSUME NEW g \in Gens PROVE Entry(p, g)'
      <3>1. CASE g = n
        BY <1>2, <1>3, <1>5, <3>1 DEF Entry
      <3>2. CASE g # n
        <4>1. session'[<<p, g>>] = session[<<p, g>>]
          BY <1>4, <1>5, <3>2, Elsewhere
        <4> QED
          BY <1>1, <1>2, <1>3, <2>1, <2>2, <3>2, <4>1 DEF Entry
      <3> QED
        BY <3>1, <3>2
    <2> QED
      BY <1>2, <1>3, <2>3, <2>4, FlagsSound, SoundParts
  <1> QED
    BY <1>6, <1>7, <1>8

LEMMA RekeySteps ==
  ASSUME TypeOK, NEW p \in Proxies, Sound(p), Rekey(p)
  PROVE  TypeOK' /\ Others(p) /\ Sound(p)'
  <1> DEFINE k == proxy[p].id
             r == [proxy[p] EXCEPT !.old = k]
  <1>1. /\ pc' \in [Proxies -> Threads] /\ \A q \in Proxies \ {p} : pc'[q] = pc[q]
        /\ pc'[p].create = pc[p].create /\ pc'[p].init = pc[p].init
        /\ pc[p].respawn = "rekey" /\ pc'[p].respawn = "list"
    BY RespawnMoves DEF Rekey, RespawnStep
  <1>2. /\ session' = session /\ transport' = transport /\ removal' = removal
        /\ byDownstream' = (byDownstream \ {Current(p)}) \cup {Newest(p)}
        /\ byUpstream' \in {byUpstream, byUpstream \cup {p}} /\ probe' = probe
    BY DEF Rekey, managerVars
  <1>3. proxy \in [Proxies -> Proxy] /\ proxy[p] \in Proxy /\ k \in 1 .. MaxGens
    BY Fields DEF Gens
  <1>4. proxy' = [proxy EXCEPT ![p] = r]
    BY <1>3 DEF Rekey
  <1> HIDE DEF k
  <1>5. r \in Proxy
    BY <1>3, Zenon DEF Proxy
  <1>6. /\ r.id = proxy[p].id /\ r.gens = proxy[p].gens /\ r.old = k
        /\ r.once = proxy[p].once /\ r.closed = proxy[p].closed /\ r.ds = proxy[p].ds
        /\ r.counted = proxy[p].counted /\ r.upstream = proxy[p].upstream
    BY <1>3 DEF Proxy
  <1> HIDE DEF r
  <1>7. /\ proxy' \in [Proxies -> Proxy] /\ proxy'[p] = r
        /\ \A q \in Proxies \ {p} : proxy'[q] = proxy[q]
    BY <1>3, <1>4, <1>5
  <1>8. TypeOK'
    <2>1. byDownstream' \subseteq Ids /\ byUpstream' \subseteq Proxies
      BY <1>2, Fields DEF TypeOK
    <2> QED
      BY <1>1, <1>2, <1>6, <1>7, <2>1 DEF TypeOK, ManagerTypeOK
  <1>9. Others(p)
    BY <1>1, <1>2, <1>7 DEF Others, Untouched, Current, Newest
  <1>10. Sound(p)'
    <2>1. OnceClosed(p)' /\ Credited(p)'
      BY <1>1, <1>6, <1>7 DEF Sound, OnceClosed, Credited, Live
    <2>2. Newer(p) /\ (\A g \in Gens : Entry(p, g)) /\ k = proxy[p].id
      BY DEF Sound, k
    <2>3. Newer(p)'
      BY <1>1, <1>2, <1>6, <1>7, <2>2 DEF Newer
    <2>4. ASSUME NEW g \in Gens PROVE Entry(p, g)'
      BY <1>1, <1>2, <1>6, <1>7, <2>2 DEF Entry
    <2> QED
      BY <2>1, <2>3, <2>4, SoundParts
  <1> QED
    BY <1>8, <1>9, <1>10

LEMMA RespawnListFailsSteps ==
  ASSUME TypeOK, NEW p \in Proxies, Sound(p), RespawnListFails(p)
  PROVE  TypeOK' /\ Others(p) /\ Sound(p)'
  <1>1. /\ pc' \in [Proxies -> Threads] /\ \A q \in Proxies \ {p} : pc'[q] = pc[q]
        /\ pc'[p].create = pc[p].create /\ pc'[p].init = pc[p].init
        /\ pc[p].respawn = "list" /\ pc'[p].respawn = "drop"
    BY RespawnMoves DEF RespawnListFails, RespawnStep
  <1>2. /\ proxy' = proxy /\ probe' = probe /\ UNCHANGED proxyVars
        /\ RemoveSession(<<p, proxy[p].gens>>)
    BY DEF RespawnListFails, proxyVars, Newest
  <1>3. proxy[p].gens \in Gens /\ ManagerTypeOK /\ <<p, proxy[p].gens>> \in Ids
        /\ probe' \in [Ids -> {"off", "on", "tripped"}]
    BY <1>2, Fields DEF TypeOK, Newest
  <1>4. TypeOK' /\ Others(p) /\ RemovedOne(p)
    BY <1>1, <1>2, <1>3, RemoveTypes
  <1>5. session'[<<p, proxy[p].gens>>] = "absent"
    <2>1. session[<<p, proxy[p].gens>>] # "reserved"
      BY <1>1, <1>3, Respawning
    <2>2. session[<<p, proxy[p].gens>>] \in {"absent", "reserved", "held"}
      BY <1>3 DEF ManagerTypeOK
    <2> QED
      BY <1>2, <1>3, <2>1, <2>2, RemoveSessionMoves
  <1>6. Sound(p)'
    <2>1. /\ pc[p].create \notin {"none", "spawn"}
          /\ \A g \in Gens : session[<<p, g>>] # "reserved"
      BY <1>1, Respawning
    <2>2. Newer(p)'
      BY <1>1, <1>2, <2>1 DEF Newer, Sound
    <2>3. ASSUME NEW g \in Gens PROVE Entry(p, g)'
      <3>1. Entry(p, g) /\ session'[<<p, g>>] \in {session[<<p, g>>], "absent"}
        BY <1>4 DEF Sound, RemovedOne
      <3> QED
        BY <1>1, <1>2, <1>5, <2>1, <3>1 DEF Entry
    <2> QED
      BY <1>1, <1>2, <2>2, <2>3, FlagsSound, SoundParts
  <1> QED
    BY <1>4, <1>6

LEMMA PublishRespawnSteps ==
  ASSUME TypeOK, NEW p \in Proxies, Sound(p), PublishRespawn(p)
  PROVE  TypeOK' /\ Others(p) /\ Sound(p)'
  <1> DEFINE n == proxy[p].gens
             c == proxy[p].counted \/ proxy[p].upstream
             r == [proxy[p] EXCEPT !.once = FALSE, !.closed = FALSE, !.id = n, !.ds = n,
                                   !.counted = c]
  <1>1. /\ pc' \in [Proxies -> Threads] /\ \A q \in Proxies \ {p} : pc'[q] = pc[q]
        /\ pc'[p].create = pc[p].create /\ pc'[p].init = pc[p].init
        /\ pc[p].respawn = "list" /\ pc'[p].respawn = "retire"
    BY RespawnMoves DEF PublishRespawn, RespawnStep
  <1>2. /\ session' = session /\ transport' = transport /\ removal' = removal
        /\ byDownstream' = byDownstream /\ byUpstream' = byUpstream /\ probe' = probe
    BY DEF PublishRespawn, managerVars, indexVars
  <1>3. proxy \in [Proxies -> Proxy] /\ proxy[p] \in Proxy
    BY Fields
  <1>4. proxy' = [proxy EXCEPT ![p] = r]
    BY <1>3 DEF PublishRespawn
  <1>5. n \in 1 .. MaxGens /\ n \in 0 .. MaxGens /\ n # 0 /\ c \in BOOLEAN
    <2>1. n \in 1 .. MaxGens
      BY Fields DEF Gens
    <2> QED
      BY <2>1, ConstantsAssumption
  <1>6. Newer(p) /\ (\A g \in Gens : Entry(p, g)) /\ proxy[p].old = proxy[p].id
    BY <1>1 DEF Sound, Newer
  <1>c. (proxy[p].upstream => c) /\ (pc[p].init # "none" => c /\ pc[p].create = "serving")
    BY DEF Sound, Credited
  <1> HIDE DEF c, n
  <1>7. r \in Proxy
    BY <1>3, <1>5, Zenon DEF Proxy
  <1>8. /\ r.id = n /\ r.gens = proxy[p].gens /\ r.old = proxy[p].old /\ r.ds = n
        /\ ~r.once /\ ~r.closed /\ r.upstream = proxy[p].upstream
    BY <1>3 DEF Proxy
  <1>9. r.counted = c
    BY <1>3, Zenon DEF Proxy
  <1> HIDE DEF r
  <1>10. /\ proxy' \in [Proxies -> Proxy] /\ proxy'[p] = r
         /\ \A q \in Proxies \ {p} : proxy'[q] = proxy[q]
    BY <1>3, <1>4, <1>7
  <1>11. TypeOK'
    BY <1>1, <1>2, <1>8, <1>10 DEF TypeOK, ManagerTypeOK
  <1>12. Others(p)
    BY <1>1, <1>2, <1>10 DEF Others, Untouched
  <1>13. Sound(p)'
    <2>1. OnceClosed(p)'
      BY <1>8, <1>10 DEF OnceClosed
    <2>2. Credited(p)'
      <3>1. pc'[p].init # "none" => proxy'[p].upstream /\ pc'[p].create = "serving"
        BY <1>1, <1>8, <1>10 DEF Sound, Credited
      <3>2. Live(p)'
        BY <1>5, <1>8, <1>10 DEF Live
      <3>3. pc'[p].init # "none" => proxy'[p].counted
        BY <1>1, <1>c, <1>9, <1>10
      <3> QED
        BY <3>1, <3>2, <3>3 DEF Credited
    <2>3. n = proxy[p].gens
      BY DEF n
    <2>4. Newer(p)'
      <3>1. pc[p].create \notin {"none", "spawn"} /\ n <= n
        BY <1>1, <1>5, Respawning, ConstantsAssumption
      <3> QED
        BY <1>1, <1>8, <1>10, <2>3, <3>1 DEF Newer
    <2>5. ASSUME NEW g \in Gens PROVE Entry(p, g)'
      BY <1>1, <1>2, <1>6, <1>8, <1>10, <2>3 DEF Entry
    <2> QED
      BY <2>1, <2>2, <2>4, <2>5, SoundParts
  <1> QED
    BY <1>11, <1>12, <1>13

LEMMA AbandonSteps ==
  ASSUME TypeOK, NEW p \in Proxies, Sound(p), AbandonRespawn(p) \/ DropRekeyed(p)
  PROVE  TypeOK' /\ Others(p) /\ Sound(p)'
  <1>1. PICK to \in {"abandon", "none", "retireOnly"} :
          /\ pc' = [pc EXCEPT ![p].respawn = to]
          /\ \/ /\ pc[p].respawn = "list" /\ to = "abandon"
                /\ session[Newest(p)] # "held"
             \/ pc[p].respawn \in {"drop", "abandon"} /\ to # "abandon"
    BY DEF AbandonRespawn, DropRekeyed, RespawnStep
  <1>2. /\ pc' \in [Proxies -> Threads] /\ \A q \in Proxies \ {p} : pc'[q] = pc[q]
        /\ pc'[p].create = pc[p].create /\ pc'[p].init = pc[p].init
        /\ pc'[p].respawn = to
    BY <1>1, RespawnMoves
  <1>3. /\ UNCHANGED <<session, transport, removal, proxy, byUpstream, probe>>
        /\ byDownstream' \in {byDownstream, byDownstream \ {Newest(p)}}
    BY DEF AbandonRespawn, DropRekeyed, managerVars, proxyVars, indexVars
  <1>4. TypeOK'
    BY <1>2, <1>3 DEF TypeOK, ManagerTypeOK
  <1>5. Others(p)
    BY <1>2, <1>3 DEF Others, Untouched, Newest
  <1>6. Sound(p)'
    <2>1. /\ pc[p].create \notin {"none", "spawn"}
          /\ \A g \in Gens : session[<<p, g>>] # "reserved"
      BY <1>1, Respawning
    <2>2. Newer(p)'
      BY <1>1, <1>2, <1>3, <2>1 DEF Newer, Sound
    <2>3. ASSUME NEW g \in Gens PROVE Entry(p, g)'
      <3>1. Entry(p, g) /\ session[<<p, g>>] \in {"absent", "held"}
        BY <2>1, IdFacts DEF Sound, TypeOK, ManagerTypeOK
      <3> QED
        BY <1>1, <1>2, <1>3, <2>1, <3>1 DEF Entry, Newest
    <2> QED
      BY <1>2, <1>3, <2>2, <2>3, FlagsSound, SoundParts
  <1> QED
    BY <1>4, <1>5, <1>6

LEMMA RetireSteps ==
  ASSUME TypeOK, NEW p \in Proxies, Sound(p), Retire(p)
  PROVE  TypeOK' /\ Others(p) /\ Sound(p)'
  <1>1. /\ pc' = [pc EXCEPT ![p].respawn = "none"]
        /\ pc[p].respawn \in {"retire", "retireOnly"}
    BY DEF Retire, RespawnStep
  <1>2. /\ pc' \in [Proxies -> Threads] /\ \A q \in Proxies \ {p} : pc'[q] = pc[q]
        /\ pc'[p].create = pc[p].create /\ pc'[p].init = pc[p].init
        /\ pc'[p].respawn = "none"
    BY <1>1, RespawnMoves
  <1>3. /\ proxy' = proxy /\ UNCHANGED proxyVars /\ RemoveSession(<<p, proxy[p].old>>)
        /\ probe' \in {probe, [probe EXCEPT ![Newest(p)] = "on"]}
    BY DEF Retire, proxyVars
  <1>4. /\ proxy[p].old \in Gens /\ ManagerTypeOK /\ <<p, proxy[p].old>> \in Ids
        /\ probe' \in [Ids -> {"off", "on", "tripped"}]
        /\ \A q \in Proxies \ {p} : \A h \in Gens : probe'[<<q, h>>] = probe[<<q, h>>]
    BY <1>3, Fields, IdFacts DEF TypeOK, Newest
  <1>5. TypeOK' /\ Others(p) /\ RemovedOne(p)
    BY <1>2, <1>3, <1>4, RemoveTypes
  <1>6. session'[<<p, proxy[p].old>>] = "absent"
    <2>1. session[<<p, proxy[p].old>>] # "reserved"
      BY <1>1, <1>4, Respawning
    <2>2. session[<<p, proxy[p].old>>] \in {"absent", "reserved", "held"}
      BY <1>4 DEF ManagerTypeOK
    <2> QED
      BY <1>3, <1>4, <2>1, <2>2, RemoveSessionMoves
  <1>7. Sound(p)'
    <2>1. /\ pc[p].create \notin {"none", "spawn"}
          /\ \A g \in Gens : session[<<p, g>>] # "reserved"
      BY <1>1, Respawning
    <2>2. Newer(p)'
      BY <1>2, <1>3, <2>1 DEF Newer, Sound
    <2>3. ASSUME NEW g \in Gens PROVE Entry(p, g)'
      <3>1. Entry(p, g) /\ session'[<<p, g>>] \in {session[<<p, g>>], "absent"}
        BY <1>5 DEF Sound, RemovedOne
      <3> QED
        BY <1>1, <1>2, <1>3, <1>6, <2>1, <3>1 DEF Entry
    <2> QED
      BY <1>2, <1>3, <2>2, <2>3, FlagsSound, SoundParts
  <1> QED
    BY <1>5, <1>7

---------------------------------------------------------------------------
(* The invariant.                                                          *)
LEMMA InitSound ==
  ASSUME Init
  PROVE  IInv
  <1>1. TypeOK
    <2>1. ManagerTypeOK
      BY DEF Init, ManagerInit, ManagerTypeOK
    <2>2. proxy \in [Proxies -> Proxy]
      <3>1. 1 \in 1 .. MaxGens /\ 0 \in 0 .. MaxGens
        BY ConstantsAssumption
      <3> QED
        BY <3>1 DEF Init, Proxy
    <2>3. pc \in [Proxies -> Threads]
      BY DEF Init, Threads
    <2> QED
      BY <2>1, <2>2, <2>3 DEF Init, TypeOK
  <1>2. ASSUME NEW p \in Proxies PROVE Sound(p)
    <2>1. Newer(p)
      BY ConstantsAssumption, IdFacts DEF Init, ManagerInit, Newer
    <2>2. ASSUME NEW g \in Gens PROVE Entry(p, g)
      BY IdFacts DEF Init, ManagerInit, Entry
    <2> QED
      BY <2>1, <2>2 DEF Init, Sound, OnceClosed, Credited, Live
  <1> QED
    BY <1>1, <1>2 DEF IInv

LEMMA ProxySteps ==
  ASSUME TypeOK, NEW p \in Proxies, Sound(p), ProxyStep(p)
  PROVE  TypeOK' /\ Others(p) /\ Sound(p)'
  <1>1. CASE \/ Open(p) \/ OpenFails(p) \/ Opened(p) \/ Attach(p) \/ Listed(p)
             \/ ListFails(p) \/ Undo(p)
    BY <1>1, OpenSteps, OpenFailsSteps, OpenedSteps, AttachSteps, ListedSteps,
       ListFailsSteps, UndoSteps
  <1>2. CASE Initialized(p) \/ Credit(p) \/ Publish(p) \/ Recheck(p) \/ LostRace(p)
    BY <1>2, InitializedSteps, CreditSteps, PublishSteps, ClosingSteps
  <1>3. CASE \/ Respawn(p) \/ RespawnFails(p) \/ Respawned(p) \/ Rekey(p)
             \/ RespawnListFails(p) \/ PublishRespawn(p) \/ AbandonRespawn(p)
             \/ DropRekeyed(p) \/ Retire(p)
    BY <1>3, RespawnSteps, RespawnedSteps, RekeySteps, RespawnListFailsSteps,
       PublishRespawnSteps, AbandonSteps, RetireSteps
  <1>4. CASE Delete(p) \/ DeleteCloses(p) \/ DeleteRemoves(p)
    BY <1>4, DeleteSteps, ClosingSteps, DeleteRemovesSteps
  <1> QED
    BY <1>1, <1>2, <1>3, <1>4 DEF ProxyStep

LEMMA IdSteps ==
  ASSUME TypeOK, NEW p \in Proxies, Sound(p), NEW g \in Gens, IdStep(<<p, g>>)
  PROVE  TypeOK' /\ Others(p) /\ Sound(p)'
  <1>1. CASE ProbeTrips(<<p, g>>) \/ ProbeEnds(<<p, g>>)
    BY <1>1, ProbeSteps
  <1>2. CASE ProbeCloses(<<p, g>>) \/ Gate(<<p, g>>)
    BY <1>2, ClosingSteps
  <1>3. CASE Reap(<<p, g>>) \/ Notify(<<p, g>>) \/ Shut(<<p, g>>)
    BY <1>3, RemovalSteps
  <1> QED
    BY <1>1, <1>2, <1>3 DEF IdStep

LEMMA StepSound ==
  ASSUME IInv, [Next]_vars
  PROVE  IInv'
  <1>1. ASSUME NEW p \in Proxies, TypeOK', Others(p), Sound(p)' PROVE IInv'
    BY <1>1, UntouchedSound DEF IInv, Others
  <1>2. CASE \E p \in Proxies : ProxyStep(p)
    BY <1>1, <1>2, ProxySteps DEF IInv
  <1>3. ASSUME NEW i \in Ids, IdStep(i) PROVE IInv'
    <2>1. i[1] \in Proxies /\ i[2] \in Gens /\ IdStep(<<i[1], i[2]>>)
      BY <1>3, IdFacts
    <2> QED
      BY <1>1, <2>1, IdSteps DEF IInv
  <1>4. CASE CloseListener
    BY <1>4, CloseListenerSteps
  <1>5. CASE UNCHANGED vars
    <2>1. TypeOK'
      BY <1>5 DEF IInv, TypeOK, ManagerTypeOK, vars, managerVars, proxyVars, indexVars
    <2>2. ASSUME NEW p \in Proxies PROVE Sound(p)'
      BY <1>5, UntouchedSound
      DEF IInv, Untouched, vars, managerVars, proxyVars, indexVars
    <2> QED
      BY <2>1, <2>2 DEF IInv
  <1> QED
    BY <1>2, <1>3, <1>4, <1>5 DEF Next

(* The invariant holds whatever a subprocess sends.                        *)
THEOREM SoundHolds == Spec => []IInv
  BY InitSound, StepSound, PTL DEF Spec

(* Every variable has its type; a closed proxy session has used up its     *)
(* closeOnce and has no pointer.                                           *)
THEOREM TypesHold == Spec => []TypeOK
  <1>1. IInv => TypeOK
    BY DEF IInv
  <1> QED
    BY <1>1, SoundHolds, PTL

(* The active-session credit follows the life of the downstream through    *)
(* every race of removal, initialization, DELETE and respawn.              *)
THEOREM CreditHolds == Spec => []CreditMatchesLife
  <1>1. IInv => CreditMatchesLife
    BY DEF IInv, Sound, Credited, CreditMatchesLife
  <1> QED
    BY <1>1, SoundHolds, PTL

LEMMA AtMostTwo ==
  ASSUME NEW a, NEW b, NEW S, S \subseteq {a, b}
  PROVE  Cardinality(S) <= 2
  <1>1. /\ IsFiniteSet({a}) /\ Cardinality({a}) = 1
    BY FS_Singleton
  <1>2. /\ IsFiniteSet({a} \cup {b})
        /\ Cardinality({a} \cup {b}) = IF b \in {a} THEN 1 ELSE 1 + 1
    BY <1>1, FS_AddElement
  <1>3. {a} \cup {b} = {a, b}
    OBVIOUS
  <1>4. Cardinality(S) <= Cardinality({a, b}) /\ IsFiniteSet(S)
    BY <1>2, <1>3, FS_Subset
  <1>5. Cardinality(S) \in Nat
    BY <1>4, FS_CardinalityType
  <1> QED
    BY <1>2, <1>3, <1>4, <1>5

LEMMA AtMostOne ==
  ASSUME NEW a, NEW S, S \subseteq {a}
  PROVE  Cardinality(S) <= 1
  <1>1. IsFiniteSet({a}) /\ Cardinality({a}) = 1
    BY FS_Singleton
  <1> QED
    BY <1>1, FS_Subset

(* The admission count does not leak: a proxy session occupies one place   *)
(* of the manager, and two only while it replaces its downstream.          *)
THEOREM EntriesHold == Spec => []OneEntryPerSession
  <1>1. ASSUME IInv PROVE OneEntryPerSession
    <2> SUFFICES ASSUME NEW p \in Proxies
                 PROVE  LET entries == {i \in Ids : i[1] = p /\ session[i] # "absent"}
                        IN Cardinality(entries) <= IF pc[p].respawn = "none" THEN 1 ELSE 2
      BY DEF OneEntryPerSession
    <2> DEFINE entries == {i \in Ids : i[1] = p /\ session[i] # "absent"}
    <2>1. TypeOK /\ Sound(p)
      BY <1>1 DEF IInv
    <2>2. ASSUME NEW i \in entries
          PROVE  i[2] \in Gens /\ i = <<p, i[2]>> /\ session[<<p, i[2]>>] # "absent"
      BY IdFacts
    <2>3. CASE pc[p].respawn = "none"
      <3>1. entries \subseteq {Current(p)}
        BY <2>1, <2>2, <2>3 DEF Sound, Entry, Current
      <3> QED
        BY <2>3, <3>1, AtMostOne
    <2>4. CASE pc[p].respawn # "none"
      <3> DEFINE g == IF pc[p].respawn = "retire" THEN proxy[p].old ELSE proxy[p].gens
      <3>1. entries \subseteq {Current(p), <<p, g>>}
        BY <2>1, <2>2, <2>4, Respawning DEF Current
      <3> QED
        BY <2>4, <3>1, AtMostTwo
    <2> QED
      BY <2>3, <2>4
  <1> QED
    BY <1>1, SoundHolds, PTL

---------------------------------------------------------------------------
(* The gate before a close, for the proxy sessions no respawn overtook.    *)
(* Clients are served when the constructor is done; until it has stored    *)
(* the pointer it is the only thread of its proxy session.                 *)
Fresh == {"none", "spawn", "attach"}

Alone(p) ==
  /\ pc[p].create # "serving" =>
       /\ ~proxy[p].upstream /\ p \notin byUpstream
       /\ pc[p].init = "none" /\ pc[p].delete = "none"
  /\ pc[p].create \in Fresh =>
       /\ proxy[p].gens = 1 /\ pc[p].respawn = "none"
       /\ \A g \in Gens : probe[<<p, g>>] = "off"

Unspawned(p, g) ==
  \/ g > proxy[p].gens
  \/ g = 1 /\ pc[p].create \in {"none", "spawn"}
  \/ g = proxy[p].gens /\ pc[p].respawn = "spawn"

(* What the manager holds is open, and nothing removes what never ran.     *)
Held(p, g) ==
  /\ session[<<p, g>>] = "held" =>
       transport[<<p, g>>] = "open" /\ removal[<<p, g>>] = "none"
  /\ Unspawned(p, g) => removal[<<p, g>>] = "none" /\ session[<<p, g>>] # "held"

(* A connection that may be published: it is open, and its removal, if any *)
(* is under way, still has to gate the calls, which it does if the index   *)
(* has the id.                                                             *)
Good(p, g) ==
  /\ transport[<<p, g>>] = "open"
  /\ removal[<<p, g>>] \in {"none", "notify", "gate"}
  /\ <<p, g>> \in byDownstream \/ removal[<<p, g>>] = "gate"

Published(p) ==
  Live(p) => /\ proxy[p].ds = proxy[p].id /\ Good(p, proxy[p].id)
             /\ pc[p].respawn \in {"none", "retire"}
             /\ pc[p].create \notin Fresh

(* The index has the id of a connection that is about to be published.     *)
Indexed(p) ==
  /\ pc[p].create = "spawn" => First(p) \in byDownstream
  /\ pc[p].create = "attach" => proxy[p].closed \/ Good(p, 1)
  /\ pc[p].respawn = "list" /\ session[Newest(p)] = "held" => Newest(p) \in byDownstream

Steady(p) == Alone(p) /\ (\A g \in Gens : Held(p, g)) /\ Published(p) /\ Indexed(p)

GInv == IInv /\ \A p \in Proxies : proxy[p].overtaken \/ Steady(p)

LEMMA UntouchedSteady ==
  ASSUME TypeOK, NEW q \in Proxies, Steady(q), Untouched(q)
  PROVE  Steady(q)'
  <1>1. proxy[q].id \in Gens /\ proxy[q].gens \in Gens /\ 1 \in Gens
    BY Fields, IdFacts
  <1>2. Alone(q)'
    BY DEF Steady, Alone, Untouched
  <1>3. ASSUME NEW g \in Gens PROVE Held(q, g)'
    BY DEF Steady, Held, Unspawned, Untouched
  <1>4. \A g \in Gens : Good(q, g) => Good(q, g)'
    BY DEF Good, Untouched
  <1>5. Published(q)' /\ Indexed(q)'
    BY <1>1, <1>4 DEF Steady, Published, Indexed, Live, First, Newest, Untouched
  <1> QED
    BY <1>2, <1>3, <1>5 DEF Steady

(* A step of another thread than the one that spawns or publishes.         *)
Passing(p) ==
  /\ proxy'[p].id = proxy[p].id /\ proxy'[p].gens = proxy[p].gens
  /\ proxy[p].closed => proxy'[p].closed
  /\ pc'[p].create \in Fresh => pc'[p].create = pc[p].create
  /\ pc'[p].respawn \in {"spawn", "list"} => pc'[p].respawn = pc[p].respawn

(* It may take a session out of the manager: its connection stays good,    *)
(* as the removal gates before it closes.                                  *)
LEMMA PassingSteady ==
  ASSUME TypeOK, NEW p \in Proxies, Steady(p), Alone(p)', Passing(p),
         Live(p)' => /\ Live(p) /\ proxy'[p].ds = proxy[p].ds
                     /\ pc'[p].respawn \in {"none", "retire"},
         \A g \in Gens :
           /\ transport'[<<p, g>>] = transport[<<p, g>>]
           /\ session'[<<p, g>>] \in {session[<<p, g>>], "absent"}
           /\ \/ removal'[<<p, g>>] = removal[<<p, g>>]
              \/ /\ session[<<p, g>>] = "held" /\ session'[<<p, g>>] = "absent"
                 /\ removal'[<<p, g>>] = "notify"
           /\ <<p, g>> \in byDownstream => <<p, g>> \in byDownstream'
  PROVE  Steady(p)'
  <1>1. proxy[p].id \in Gens /\ proxy[p].gens \in Gens /\ 1 \in Gens
    BY Fields, IdFacts
  <1>2. ASSUME NEW g \in Gens PROVE Held(p, g)'
    BY DEF Steady, Held, Unspawned, Passing, Fresh
  <1>3. ASSUME NEW g \in Gens, Good(p, g) PROVE Good(p, g)'
    BY <1>3 DEF Steady, Held, Good
  <1>4. Published(p)'
    BY <1>1, <1>3 DEF Steady, Published, Passing
  <1>5. Indexed(p)'
    BY <1>1, <1>3 DEF Steady, Indexed, First, Newest, Passing, Fresh
  <1> QED
    BY <1>2, <1>4, <1>5 DEF Steady

(* It may close the proxy session; a removal that does has gated.          *)
LEMMA ClosedSteady ==
  ASSUME TypeOK, NEW p \in Proxies, Sound(p), Steady(p), Alone(p)', Passing(p),
         pc[p].create # "spawn", proxy'[p].closed,
         byDownstream' = byDownstream \ {Current(p)},
         \A g \in Gens :
           /\ session'[<<p, g>>] = session[<<p, g>>]
           /\ transport'[<<p, g>>] = transport[<<p, g>>]
           /\ \/ removal'[<<p, g>>] = removal[<<p, g>>]
              \/ removal[<<p, g>>] = "gate"
  PROVE  Steady(p)'
  <1>1. proxy[p].id \in Gens /\ proxy[p].gens \in Gens /\ 1 \in Gens
    BY Fields, IdFacts
  <1>2. ASSUME NEW g \in Gens PROVE Held(p, g)'
    BY DEF Steady, Held, Unspawned, Passing, Fresh
  <1>3. Published(p)'
    BY DEF Published, Live
  <1>4. Indexed(p)'
    <2>1. pc[p].respawn = "list" => Newest(p) # Current(p)
      <3>1. pc[p].respawn = "list" => proxy[p].id < proxy[p].gens
        BY DEF Sound, Newer
      <3>2. proxy[p].id \in Int /\ proxy[p].gens \in Int
        BY <1>1, IdFacts DEF Gens
      <3>3. pc[p].respawn = "list" => proxy[p].id # proxy[p].gens
        BY <3>1, <3>2
      <3> QED
        BY <3>3 DEF Newest, Current
    <2> QED
      BY <1>1, <2>1 DEF Steady, Indexed, First, Newest, Passing, Fresh
  <1> QED
    BY <1>2, <1>3, <1>4 DEF Steady

LEMMA Serving ==
  ASSUME NEW p \in Proxies, Steady(p),
         pc[p].init # "none" \/ pc[p].delete # "none" \/ p \in byUpstream
  PROVE  pc[p].create = "serving"
  BY DEF Steady, Alone

LEMMA Built ==
  ASSUME NEW p \in Proxies, Steady(p),
         pc[p].respawn # "none" \/ \E g \in Gens : probe[<<p, g>>] # "off"
  PROVE  pc[p].create \notin Fresh
  BY DEF Steady, Alone

(* A step of the respawn, or of a probe, leaves what Alone says of clients.*)
LEMMA StillAlone ==
  ASSUME NEW p \in Proxies, Steady(p), pc[p].create \notin Fresh,
         pc'[p].create = pc[p].create, pc'[p].init = pc[p].init,
         pc'[p].delete = pc[p].delete, proxy'[p].upstream = proxy[p].upstream,
         ~proxy[p].upstream => byUpstream' \subseteq byUpstream
  PROVE  Alone(p)'
  BY DEF Steady, Alone

(* What a removal does to the entries of a proxy session.                  *)
Removing(p) ==
  \A g \in Gens :
    /\ transport'[<<p, g>>] = transport[<<p, g>>]
    /\ session'[<<p, g>>] \in {session[<<p, g>>], "absent"}
    /\ \/ removal'[<<p, g>>] = removal[<<p, g>>]
       \/ /\ session[<<p, g>>] = "held" /\ session'[<<p, g>>] = "absent"
          /\ removal'[<<p, g>>] = "notify"

LEMMA RemoveRemoving ==
  ASSUME TypeOK, NEW p \in Proxies, NEW g \in Gens, RemoveSession(<<p, g>>)
  PROVE  Removing(p)
  <1>1. <<p, g>> \in Ids /\ ManagerTypeOK
    BY IdFacts DEF TypeOK
  <1>2. /\ SameElsewhere(<<p, g>>) /\ transport' = transport
        /\ session[<<p, g>>] = "held" =>
             session'[<<p, g>>] = "absent" /\ removal'[<<p, g>>] = "notify"
        /\ session[<<p, g>>] # "held" =>
             /\ session'[<<p, g>>] = session[<<p, g>>]
             /\ removal'[<<p, g>>] = removal[<<p, g>>]
    BY <1>1, RemoveSessionMoves
  <1> QED
    BY <1>2, Elsewhere DEF Removing

(* The constructor.                                                        *)
LEMMA OpenSteady ==
  ASSUME TypeOK, NEW p \in Proxies, Sound(p), Steady(p), Open(p) \/ OpenFails(p)
  PROVE  Steady(p)'
  <1>0. ManagerTypeOK /\ <<p, 1>> \in Ids /\ 1 \in Gens
    BY IdFacts DEF TypeOK
  <1>1. PICK to \in {"spawn", "failed"} :
          /\ pc' = [pc EXCEPT ![p].create = to] /\ pc[p].create \in {"none", "spawn"}
          /\ to = "spawn" => Reserve(<<p, 1>>)
          /\ to = "failed" => SpawnFails(<<p, 1>>)
          /\ to = "spawn" => byDownstream' = byDownstream \cup {<<p, 1>>}
    BY DEF Open, OpenFails, Create, First
  <1>2. /\ pc'[p].create = to /\ pc'[p].init = pc[p].init
        /\ pc'[p].respawn = pc[p].respawn /\ pc'[p].delete = pc[p].delete
    BY <1>1, CreateMoves
  <1>3. proxy' = proxy /\ byUpstream' = byUpstream /\ probe' = probe
    BY DEF Open, OpenFails
  <1>4. /\ SameElsewhere(<<p, 1>>) /\ transport' = transport /\ removal' = removal
        /\ session'[<<p, 1>>] # "held"
    BY <1>0, <1>1, ReserveMoves, SpawnFailsMoves
  <1>5. Alone(p) /\ Published(p) /\ \A g \in Gens : Held(p, g)
    BY DEF Steady
  <1>6. Alone(p)'
    BY <1>1, <1>2, <1>3, <1>5 DEF Alone, Fresh
  <1>7. ASSUME NEW g \in Gens PROVE Held(p, g)'
    <2>1. session'[<<p, g>>] = "held" => session[<<p, g>>] = "held"
      BY <1>0, <1>4, Elsewhere
    <2> QED
      BY <1>1, <1>2, <1>3, <1>4, <1>5, <2>1 DEF Held, Unspawned, Alone
  <1>8. Published(p)'
    BY <1>1, <1>3, <1>5 DEF Published, Live, Fresh
  <1>9. Indexed(p)'
    BY <1>1, <1>2, <1>5 DEF Indexed, First, Alone, Fresh
  <1> QED
    BY <1>6, <1>7, <1>8, <1>9 DEF Steady

LEMMA OpenedSteady ==
  ASSUME TypeOK, NEW p \in Proxies, Sound(p), Steady(p), Opened(p)
  PROVE  Steady(p)'
  <1>0. ManagerTypeOK /\ <<p, 1>> \in Ids /\ 1 \in Gens
    BY IdFacts DEF TypeOK
  <1>1. /\ pc[p].create = "spawn" /\ pc'[p].create = "attach" /\ pc'[p].init = pc[p].init
        /\ pc'[p].respawn = pc[p].respawn /\ pc'[p].delete = pc[p].delete
    BY CreateMoves DEF Opened, Create
  <1>2. /\ proxy' = proxy /\ byUpstream' = byUpstream /\ probe' = probe
        /\ byDownstream' = byDownstream
    BY DEF Opened, proxyVars, indexVars
  <1>3. /\ SameElsewhere(<<p, 1>>) /\ removal' = removal
        /\ session'[<<p, 1>>] = "held" /\ transport'[<<p, 1>>] = "open"
    BY <1>0, SpawnedMoves DEF Opened, First
  <1>4. Alone(p) /\ Published(p) /\ Indexed(p) /\ \A g \in Gens : Held(p, g)
    BY DEF Steady
  <1>5. Alone(p)'
    BY <1>1, <1>2, <1>4 DEF Alone, Fresh
  <1>6. removal[<<p, 1>>] = "none"
    BY <1>0, <1>1, <1>4 DEF Held, Unspawned
  <1>7. ASSUME NEW g \in Gens PROVE Held(p, g)'
    <2>1. proxy[p].gens = 1 /\ pc[p].respawn = "none" /\ ~(1 > 1)
      BY <1>1, <1>4 DEF Alone, Fresh
    <2>2. CASE g = 1
      BY <1>1, <1>2, <1>3, <1>6, <2>1, <2>2 DEF Held, Unspawned
    <2>3. CASE g # 1
      <3>1. /\ session'[<<p, g>>] = session[<<p, g>>]
            /\ transport'[<<p, g>>] = transport[<<p, g>>]
        BY <1>0, <1>3, <2>3, Elsewhere
      <3> QED
        BY <1>1, <1>2, <1>3, <1>4, <2>3, <3>1 DEF Held, Unspawned
    <2> QED
      BY <2>2, <2>3
  <1>8. Published(p)'
    BY <1>1, <1>2, <1>4 DEF Published, Live, Fresh
  <1>9. Indexed(p)'
    <2>1. Good(p, 1)'
      BY <1>1, <1>2, <1>3, <1>4, <1>6 DEF Good, Indexed, First
    <2> QED
      BY <1>1, <1>4, <2>1 DEF Indexed, Alone, Fresh
  <1> QED
    BY <1>5, <1>7, <1>8, <1>9 DEF Steady

LEMMA AttachSteady ==
  ASSUME TypeOK, NEW p \in Proxies, Sound(p), Steady(p), Attach(p)
  PROVE  Steady(p)'
  <1>1. /\ pc[p].create = "attach" /\ pc'[p].create = "list" /\ pc'[p].init = pc[p].init
        /\ pc'[p].respawn = pc[p].respawn /\ pc'[p].delete = pc[p].delete
    BY CreateMoves DEF Attach, Create
  <1>2. UNCHANGED <<session, transport, removal, byDownstream, byUpstream, probe>>
    BY DEF Attach, managerVars, indexVars
  <1>3. /\ proxy'[p].id = proxy[p].id /\ proxy'[p].gens = proxy[p].gens
        /\ proxy'[p].closed = proxy[p].closed /\ proxy'[p].upstream = proxy[p].upstream
        /\ ~proxy[p].closed => proxy'[p].ds = 1
    BY Fields DEF Attach, Proxy
  <1>4. Alone(p) /\ Published(p) /\ Indexed(p) /\ \A g \in Gens : Held(p, g)
    BY DEF Steady
  <1>5. proxy[p].gens = 1 /\ pc[p].respawn = "none" /\ proxy[p].id = 1
    <2>1. proxy[p].gens = 1 /\ pc[p].respawn = "none" /\ proxy[p].id <= proxy[p].gens
      BY <1>1, <1>4 DEF Alone, Sound, Newer, Fresh
    <2>2. proxy[p].id \in 1 .. MaxGens /\ MaxGens \in Nat
      BY Fields, IdFacts DEF Gens
    <2> QED
      BY <2>1, <2>2
  <1>6. Alone(p)'
    BY <1>1, <1>2, <1>3, <1>4 DEF Alone, Fresh
  <1>7. ASSUME NEW g \in Gens PROVE Held(p, g)'
    BY <1>1, <1>2, <1>3, <1>4 DEF Held, Unspawned
  <1>8. ~proxy[p].closed => Good(p, 1)'
    BY <1>1, <1>2, <1>4 DEF Indexed, Good
  <1>9. Published(p)'
    BY <1>1, <1>3, <1>5, <1>8 DEF Published, Live, Fresh
  <1>10. Indexed(p)'
    BY <1>1, <1>5 DEF Indexed
  <1> QED
    BY <1>6, <1>7, <1>9, <1>10 DEF Steady

LEMMA ListedSteady ==
  ASSUME TypeOK, NEW p \in Proxies, Sound(p), Steady(p), Listed(p)
  PROVE  Steady(p)'
  <1>1. /\ pc[p].create = "list" /\ pc'[p].create = "serving"
        /\ pc'[p].respawn = pc[p].respawn
    BY CreateMoves DEF Listed, Create
  <1>2. UNCHANGED <<session, transport, removal, byDownstream, byUpstream, proxy>>
    BY DEF Listed, managerVars, proxyVars, indexVars
  <1>3. Alone(p)' /\ Passing(p)
    BY <1>1, <1>2 DEF Alone, Passing, Fresh
  <1>4. Live(p)' => /\ Live(p) /\ proxy'[p].ds = proxy[p].ds
                    /\ pc'[p].respawn \in {"none", "retire"}
    BY <1>1, <1>2 DEF Live, Steady, Published
  <1> QED
    BY <1>2, <1>3, <1>4, PassingSteady

LEMMA UndoSteady ==
  ASSUME TypeOK, NEW p \in Proxies, Sound(p), Steady(p), Undo(p)
  PROVE  Steady(p)'
  <1>1. /\ pc[p].create = "undo" /\ pc'[p].create = "failed" /\ pc'[p].init = pc[p].init
        /\ pc'[p].respawn = pc[p].respawn /\ pc'[p].delete = pc[p].delete
    BY CreateMoves DEF Undo, Create
  <1>2. UNCHANGED <<byDownstream, byUpstream, proxy, probe>>
    BY DEF Undo, proxyVars, indexVars
  <1>3. Removing(p)
    BY RemoveRemoving, IdFacts DEF Undo, First
  <1>4. Alone(p)' /\ Passing(p)
    BY <1>1, <1>2 DEF Alone, Passing, Steady, Fresh
  <1>5. Live(p)' => /\ Live(p) /\ proxy'[p].ds = proxy[p].ds
                    /\ pc'[p].respawn \in {"none", "retire"}
    BY <1>1, <1>2 DEF Live, Steady, Published
  <1> QED
    BY <1>2, <1>3, <1>4, <1>5, PassingSteady DEF Removing

---------------------------------------------------------------------------
(* The handlers of notifications/initialized and of DELETE.                *)
LEMMA HandlersSteady ==
  ASSUME TypeOK, NEW p \in Proxies, Sound(p), Steady(p),
         \/ Initialized(p) \/ Credit(p) \/ Publish(p) \/ Recheck(p)
         \/ Delete(p) \/ DeleteRemoves(p)
  PROVE  Steady(p)'
  <1>1. /\ pc[p].create = "serving" /\ pc'[p].create = "serving"
        /\ pc'[p].respawn = pc[p].respawn
    <2>1. CASE Initialized(p)
      BY <2>1, InitMoves DEF Initialized, InitStep
    <2>2. CASE Credit(p) \/ Publish(p) \/ Recheck(p)
      <3>1. PICK to \in {"publish", "publishDead", "recheck", "done", "lost"} :
              pc' = [pc EXCEPT ![p].init = to] /\ pc[p].init # "none"
        BY <2>2 DEF Credit, Publish, Recheck, InitStep
      <3> QED
        BY <3>1, InitMoves, Serving
    <2>3. CASE Delete(p) \/ DeleteRemoves(p)
      <3>1. PICK to \in {"close", "none"} :
              /\ pc' = [pc EXCEPT ![p].delete = to]
              /\ p \in byUpstream \/ pc[p].delete # "none"
        BY <2>3 DEF Delete, DeleteRemoves, DeleteStep
      <3> QED
        BY <3>1, DeleteMoves, Serving
    <2> QED
      BY <2>1, <2>2, <2>3
  <1>2. /\ proxy'[p].id = proxy[p].id /\ proxy'[p].gens = proxy[p].gens
        /\ proxy'[p].closed = proxy[p].closed /\ proxy'[p].ds = proxy[p].ds
    <2>1. CASE Initialized(p) \/ Credit(p)
      BY <2>1, Fields DEF Initialized, Credit, Proxy
    <2>2. CASE Publish(p) \/ Recheck(p) \/ Delete(p) \/ DeleteRemoves(p)
      BY <2>2 DEF Publish, Recheck, Delete, DeleteRemoves, proxyVars
    <2> QED
      BY <2>1, <2>2
  <1>3. Removing(p)
    <2>1. CASE DeleteRemoves(p)
      BY <2>1, RemoveRemoving, Fields DEF DeleteRemoves, Current
    <2>2. CASE \/ Initialized(p) \/ Credit(p) \/ Publish(p) \/ Recheck(p) \/ Delete(p)
      BY <2>2 DEF Initialized, Credit, Publish, Recheck, Delete, managerVars, Removing
    <2> QED
      BY <2>1, <2>2
  <1>4. byDownstream \subseteq byDownstream'
    BY DEF Initialized, Credit, Publish, Recheck, Delete, DeleteRemoves, proxyVars, indexVars
  <1>5. Alone(p)' /\ Passing(p)
    BY <1>1, <1>2 DEF Alone, Passing, Fresh
  <1>6. Live(p)' => /\ Live(p) /\ proxy'[p].ds = proxy[p].ds
                    /\ pc'[p].respawn \in {"none", "retire"}
    BY <1>1, <1>2 DEF Live, Steady, Published
  <1> QED
    BY <1>3, <1>4, <1>5, <1>6, PassingSteady DEF Removing

(* The threads that close a proxy session; its constructor is done, or     *)
(* has failed, or a removal has come to the gate, which it cannot before   *)
(* the subprocess runs.                                                    *)
LEMMA ClosingSteady ==
  ASSUME TypeOK, NEW p \in Proxies, Sound(p), Steady(p),
         \/ ListFails(p) \/ LostRace(p) \/ DeleteCloses(p)
         \/ \E g \in Gens : ProbeCloses(<<p, g>>) \/ Gate(<<p, g>>)
  PROVE  Steady(p)'
  <1>1. /\ pc'[p].respawn = pc[p].respawn /\ pc[p].create # "spawn"
        /\ pc'[p].create \in {pc[p].create, "undo"}
        /\ pc'[p].create # "serving" =>
             /\ pc[p].create # "serving" /\ pc'[p].init = pc[p].init
             /\ pc'[p].delete = pc[p].delete
        /\ pc'[p].create \in Fresh => probe' = probe
    <2>1. CASE ListFails(p)
      BY <2>1, CreateMoves DEF ListFails, Create
    <2>2. CASE LostRace(p)
      <3>1. pc[p].create = "serving"
        BY <2>2, Serving DEF LostRace, InitStep
      <3> QED
        BY <2>2, <3>1, InitMoves DEF LostRace, InitStep
    <2>3. CASE DeleteCloses(p)
      <3>1. pc[p].create = "serving"
        BY <2>3, Serving DEF DeleteCloses, DeleteStep
      <3> QED
        BY <2>3, <3>1, DeleteMoves DEF DeleteCloses, DeleteStep
    <2>4. CASE \E g \in Gens : ProbeCloses(<<p, g>>)
      <3>1. pc[p].create \notin Fresh
        BY <2>4, Built DEF ProbeCloses
      <3> QED
        BY <2>4, <3>1 DEF ProbeCloses, Fresh
    <2>5. CASE \E g \in Gens : Gate(<<p, g>>)
      <3>1. PICK g \in Gens : removal[<<p, g>>] = "gate"
        BY <2>5 DEF Gate, Gated
      <3>2. pc[p].create # "spawn"
        <4> SUFFICES ASSUME pc[p].create = "spawn" PROVE FALSE
          OBVIOUS
        <4>1. ~Unspawned(p, g)
          BY <3>1 DEF Steady, Held
        <4>2. proxy[p].gens = 1 /\ g # 1 /\ ~(g > 1)
          BY <4>1 DEF Unspawned, Steady, Alone, Fresh
        <4>3. g \in 1 .. MaxGens /\ MaxGens \in Nat
          BY IdFacts DEF Gens
        <4> QED
          BY <4>2, <4>3
      <3> QED
        BY <2>5, <3>2 DEF Gate
    <2> QED
      BY <2>1, <2>2, <2>3, <2>4, <2>5
  <1>2. CloseDownstream(p)
    BY DEF ListFails, LostRace, DeleteCloses, ProbeCloses, Gate
  <1>3. /\ proxy'[p].id = proxy[p].id /\ proxy'[p].gens = proxy[p].gens
        /\ proxy'[p].upstream = proxy[p].upstream /\ proxy'[p].closed
        /\ byDownstream' = byDownstream \ {Current(p)}
        /\ byUpstream' \in {byUpstream, byUpstream \ {p}}
    BY <1>2, Closing
  <1> DEFINE Kept ==
        \A g \in Gens :
          /\ session'[<<p, g>>] = session[<<p, g>>]
          /\ transport'[<<p, g>>] = transport[<<p, g>>]
          /\ removal'[<<p, g>>] = removal[<<p, g>>] \/ removal[<<p, g>>] = "gate"
  <1>4. Kept
    <2>1. CASE \/ ListFails(p) \/ LostRace(p) \/ DeleteCloses(p)
               \/ \E g \in Gens : ProbeCloses(<<p, g>>)
      BY <2>1 DEF ListFails, LostRace, DeleteCloses, ProbeCloses, managerVars
    <2>2. ASSUME NEW g \in Gens, Gate(<<p, g>>)
          PROVE  Kept
      <3>1. /\ session' = session /\ transport' = transport /\ removal[<<p, g>>] = "gate"
            /\ removal' = [removal EXCEPT ![<<p, g>>] = "close"]
        BY <2>2 DEF Gate, Gated
      <3> QED
        BY <3>1, IdFacts DEF TypeOK, ManagerTypeOK
    <2> QED
      BY <2>1, <2>2
  <1>5. Alone(p)' /\ Passing(p)
    BY <1>1, <1>3 DEF Alone, Passing, Steady, Fresh
  <1> QED
    BY <1>1, <1>3, <1>4, <1>5, ClosedSteady

LEMMA ProbeSteady ==
  ASSUME TypeOK, NEW p \in Proxies, Sound(p), Steady(p), NEW g \in Gens,
         ProbeTrips(<<p, g>>) \/ ProbeEnds(<<p, g>>)
  PROVE  Steady(p)'
  <1>1. UNCHANGED <<session, transport, removal, proxy, byDownstream, byUpstream, pc>>
    BY DEF ProbeTrips, ProbeEnds, managerVars, proxyVars, indexVars
  <1>2. pc[p].create \notin Fresh
    BY Built DEF ProbeTrips, ProbeEnds
  <1>3. Alone(p)' /\ Passing(p)
    BY <1>1, <1>2, StillAlone DEF Passing
  <1>4. Live(p)' => /\ Live(p) /\ proxy'[p].ds = proxy[p].ds
                    /\ pc'[p].respawn \in {"none", "retire"}
    BY <1>1 DEF Live, Steady, Published
  <1> QED
    BY <1>1, <1>3, <1>4, PassingSteady

---------------------------------------------------------------------------
(* Removals.                                                               *)
LEMMA RemovedSteady ==
  ASSUME TypeOK, NEW p \in Proxies, Sound(p), Steady(p), Removing(p),
         UNCHANGED <<proxy, byDownstream, byUpstream, pc, probe>>
  PROVE  Steady(p)'
  <1>1. Alone(p)' /\ Passing(p)
    BY DEF Alone, Passing, Steady
  <1>2. Live(p)' => /\ Live(p) /\ proxy'[p].ds = proxy[p].ds
                    /\ pc'[p].respawn \in {"none", "retire"}
    BY DEF Live, Steady, Published
  <1> QED
    BY <1>1, <1>2, PassingSteady DEF Removing

LEMMA ReapSteady ==
  ASSUME TypeOK, NEW p \in Proxies, Sound(p), Steady(p), NEW g \in Gens, Reap(<<p, g>>)
  PROVE  Steady(p)'
  <1>1. RemoveSession(<<p, g>>)
    BY DEF Reap, ReapExpiredSession, RemoveSession
  <1>2. UNCHANGED <<proxy, byDownstream, byUpstream, pc, probe>>
    BY DEF Reap, proxyVars, indexVars
  <1> QED
    BY <1>1, <1>2, RemoveRemoving, RemovedSteady

LEMMA CloseListenerSteady ==
  ASSUME IInv, CloseListener, NEW p \in Proxies, Steady(p)
  PROVE  Steady(p)'
  <1>1. TypeOK /\ Sound(p)
    BY DEF IInv
  <1>2. Removing(p)
    <2>1. TakeOut(Ids) /\ ManagerTypeOK
      BY <1>1 DEF CloseListener, CloseAll, TypeOK
    <2> QED
      BY <2>1, TakeOutMoves, IdFacts DEF Removing
  <1>3. UNCHANGED <<proxy, byDownstream, byUpstream, pc, probe>>
    BY DEF CloseListener, proxyVars, indexVars
  <1> QED
    BY <1>1, <1>2, <1>3, RemovedSteady

(* The callbacks: what they hand to the gate was in the index.             *)
LEMMA NotifySteady ==
  ASSUME TypeOK, NEW p \in Proxies, Sound(p), Steady(p), NEW g \in Gens, Notify(<<p, g>>)
  PROVE  Steady(p)'
  <1>1. /\ UNCHANGED <<session, transport, proxy, byUpstream, pc, probe>>
        /\ byDownstream' = byDownstream \ {<<p, g>>}
        /\ removal[<<p, g>>] = "notify"
        /\ <<p, g>> \in byDownstream => removal'[<<p, g>>] = "gate"
        /\ \A h \in Gens \ {g} : removal'[<<p, h>>] = removal[<<p, h>>]
    BY IdFacts DEF Notify, Notified, TypeOK, ManagerTypeOK
  <1>2. /\ Alone(p) /\ Published(p) /\ Indexed(p) /\ \A h \in Gens : Held(p, h)
        /\ proxy[p].id \in Gens /\ proxy[p].gens \in Gens /\ 1 \in Gens
    BY Fields, IdFacts DEF Steady
  <1>3. Alone(p)'
    BY <1>1, <1>2 DEF Alone
  <1>4. ASSUME NEW h \in Gens PROVE Held(p, h)'
    <2>1. Held(p, g) /\ Held(p, h)
      BY <1>2
    <2> QED
      BY <1>1, <2>1 DEF Held, Unspawned
  <1>5. ASSUME NEW h \in Gens, Good(p, h) PROVE Good(p, h)'
    <2>1. CASE h = g
      BY <1>1, <1>5, <2>1 DEF Good
    <2>2. CASE h # g
      BY <1>1, <1>5, <2>2 DEF Good
    <2> QED
      BY <2>1, <2>2
  <1>6. Published(p)'
    BY <1>1, <1>2, <1>5 DEF Published, Live
  <1>7. Indexed(p)'
    <2>1. pc[p].create = "spawn" => g # 1
      BY <1>1, <1>2 DEF Held, Unspawned
    <2>2. session[Newest(p)] = "held" => g # proxy[p].gens
      BY <1>1, <1>2 DEF Held, Newest
    <2> QED
      BY <1>1, <1>2, <1>5, <2>1, <2>2 DEF Indexed, First, Newest
  <1> QED
    BY <1>3, <1>4, <1>6, <1>7 DEF Steady

(* The connection goes after the gate: the pointer does not name it.       *)
LEMMA ShutSteady ==
  ASSUME TypeOK, NEW p \in Proxies, Sound(p), Steady(p), NEW g \in Gens, Shut(<<p, g>>)
  PROVE  Steady(p)'
  <1>1. /\ UNCHANGED <<session, proxy, byDownstream, byUpstream, pc, probe>>
        /\ removal[<<p, g>>] = "close"
        /\ \A h \in Gens \ {g} : /\ removal'[<<p, h>>] = removal[<<p, h>>]
                                 /\ transport'[<<p, h>>] = transport[<<p, h>>]
    BY IdFacts DEF Shut, CloseTransport, TypeOK, ManagerTypeOK, proxyVars, indexVars
  <1>2. /\ Alone(p) /\ Published(p) /\ Indexed(p) /\ \A h \in Gens : Held(p, h)
        /\ proxy[p].id \in Gens /\ proxy[p].gens \in Gens /\ 1 \in Gens
    BY Fields, IdFacts DEF Steady
  <1>3. Alone(p)'
    BY <1>1, <1>2 DEF Alone
  <1>4. ASSUME NEW h \in Gens PROVE Held(p, h)'
    <2>1. Held(p, g) /\ Held(p, h)
      BY <1>2
    <2> QED
      BY <1>1, <2>1 DEF Held, Unspawned
  <1>5. ASSUME NEW h \in Gens, Good(p, h) PROVE Good(p, h)'
    <2>1. h # g
      BY <1>1, <1>5 DEF Good
    <2> QED
      BY <1>1, <1>5, <2>1 DEF Good
  <1>6. Published(p)'
    BY <1>1, <1>2, <1>5 DEF Published, Live
  <1>7. Indexed(p)'
    BY <1>1, <1>2, <1>5 DEF Indexed, First, Newest
  <1> QED
    BY <1>3, <1>4, <1>6, <1>7 DEF Steady

---------------------------------------------------------------------------
(* The respawn: there is no live downstream until it publishes one.        *)
LEMMA NotLive ==
  ASSUME NEW p \in Proxies, Steady(p), pc[p].respawn \notin {"none", "retire"}
  PROVE  ~Live(p) /\ pc[p].create \notin Fresh
  BY DEF Steady, Alone, Published

LEMMA RespawnSteady ==
  ASSUME TypeOK, NEW p \in Proxies, Sound(p), Steady(p), Respawn(p),
         pc[p].create # "attach"
  PROVE  Steady(p)'
  <1> DEFINE n == proxy[p].gens + 1
  <1>0. pc[p].create \notin Fresh
    BY OnlyFirst, IdFacts DEF Respawn, Requested, Gens, Fresh
  <1>1. /\ pc'[p].create = pc[p].create /\ pc'[p].init = pc[p].init
        /\ pc'[p].delete = pc[p].delete
        /\ pc[p].respawn = "none" /\ pc'[p].respawn = "spawn"
    BY RespawnMoves DEF Respawn, RespawnStep
  <1>2. /\ byDownstream' = byDownstream /\ byUpstream' = byUpstream
        /\ Reserve(<<p, n>>) /\ ~Live(p)
    BY DEF Respawn, indexVars
  <1>3. /\ proxy'[p].id = proxy[p].id /\ proxy'[p].gens = n
        /\ proxy'[p].closed = proxy[p].closed /\ proxy'[p].ds = proxy[p].ds
        /\ proxy'[p].upstream = proxy[p].upstream
    BY Fields DEF Respawn, Proxy
  <1>4. /\ proxy[p].gens \in 1 .. MaxGens /\ proxy[p].gens < MaxGens /\ MaxGens \in Nat
    BY Fields, IdFacts DEF Respawn, Gens
  <1>5. n \in Gens /\ n > proxy[p].gens
    BY <1>4 DEF Gens
  <1>6. /\ SameElsewhere(<<p, n>>) /\ transport' = transport /\ removal' = removal
        /\ session'[<<p, n>>] = "reserved"
    <2>1. <<p, n>> \in Ids /\ ManagerTypeOK
      BY <1>5, IdFacts DEF TypeOK
    <2> QED
      BY <1>2, <2>1, ReserveMoves
  <1>7. ASSUME NEW g \in Gens PROVE Held(p, g)'
    <2>1. Held(p, g)
      BY DEF Steady
    <2>2. CASE g = n
      <3>1. removal[<<p, g>>] = "none"
        BY <1>5, <2>1, <2>2 DEF Held, Unspawned
      <3> QED
        BY <1>6, <2>2, <3>1 DEF Held
    <2>3. CASE g # n
      <3>1. session'[<<p, g>>] = session[<<p, g>>]
        BY <1>5, <1>6, <2>3, Elsewhere
      <3>2. g \in 1 .. MaxGens
        BY DEF Gens
      <3>3. Unspawned(p, g)' => Unspawned(p, g)
        BY <1>0, <1>1, <1>3, <1>4, <2>3, <3>2 DEF Unspawned, Fresh
      <3> QED
        BY <1>6, <2>1, <3>1, <3>3 DEF Held
    <2> QED
      BY <2>2, <2>3
  <1>8. Alone(p)'
    BY <1>0, <1>1, <1>2, <1>3, StillAlone
  <1>9. Published(p)' /\ Indexed(p)'
    BY <1>0, <1>1, <1>2, <1>3 DEF Published, Live, Indexed, Fresh
  <1> QED
    BY <1>7, <1>8, <1>9 DEF Steady

LEMMA RespawnedSteady ==
  ASSUME TypeOK, NEW p \in Proxies, Sound(p), Steady(p), RespawnFails(p) \/ Respawned(p)
  PROVE  Steady(p)'
  <1> DEFINE n == proxy[p].gens
  <1>1. PICK to \in {"none", "rekey"} :
          /\ pc[p].respawn = "spawn" /\ pc' = [pc EXCEPT ![p].respawn = to]
          /\ to = "none" => SpawnFails(<<p, n>>)
          /\ to = "rekey" => Spawned(<<p, n>>)
    BY DEF RespawnFails, Respawned, RespawnStep, Newest
  <1>2. /\ pc[p].create \notin Fresh /\ pc'[p].create = pc[p].create
        /\ pc'[p].init = pc[p].init /\ pc'[p].delete = pc[p].delete
        /\ pc'[p].respawn = to /\ ~Live(p)
    BY <1>1, RespawnMoves, NotLive
  <1>3. UNCHANGED <<proxy, byDownstream, byUpstream, probe>>
    BY DEF RespawnFails, Respawned, proxyVars, indexVars
  <1>4. ManagerTypeOK /\ <<p, n>> \in Ids /\ n \in Gens /\ n \in Int
    <2>1. ManagerTypeOK /\ <<p, n>> \in Ids /\ n \in Gens
      BY Fields DEF TypeOK, Newest
    <2> QED
      BY <2>1, IdFacts DEF Gens
  <1>5. /\ SameElsewhere(<<p, n>>) /\ removal' = removal
        /\ to = "none" => session'[<<p, n>>] = "absent"
        /\ to = "rekey" => session'[<<p, n>>] = "held" /\ transport'[<<p, n>>] = "open"
    BY <1>1, <1>4, SpawnFailsMoves, SpawnedMoves
  <1>6. ASSUME NEW g \in Gens PROVE Held(p, g)'
    <2>1. Held(p, g)
      BY DEF Steady
    <2>2. CASE g = n
      <3>1. removal[<<p, g>>] = "none"
        BY <1>1, <2>1, <2>2 DEF Held, Unspawned
      <3>2. ~Unspawned(p, g)'
        BY <1>2, <1>3, <1>4, <2>2 DEF Unspawned, Fresh
      <3> QED
        BY <1>5, <2>2, <3>1, <3>2 DEF Held
    <2>3. CASE g # n
      <3>1. /\ session'[<<p, g>>] = session[<<p, g>>]
            /\ transport'[<<p, g>>] = transport[<<p, g>>]
        BY <1>4, <1>5, <2>3, Elsewhere
      <3>2. Unspawned(p, g)' => Unspawned(p, g)
        BY <1>2, <1>3 DEF Unspawned, Fresh
      <3> QED
        BY <1>5, <2>1, <3>1, <3>2 DEF Held
    <2> QED
      BY <2>2, <2>3
  <1>7. Alone(p)'
    BY <1>2, <1>3, StillAlone
  <1>8. Published(p)' /\ Indexed(p)'
    BY <1>2, <1>3 DEF Published, Live, Indexed, Fresh
  <1> QED
    BY <1>6, <1>7, <1>8 DEF Steady

LEMMA RekeySteady ==
  ASSUME TypeOK, NEW p \in Proxies, Sound(p), Steady(p), Rekey(p)
  PROVE  Steady(p)'
  <1>1. /\ pc[p].create \notin Fresh /\ pc'[p].create = pc[p].create
        /\ pc'[p].init = pc[p].init /\ pc'[p].delete = pc[p].delete
        /\ pc'[p].respawn = "list" /\ ~Live(p) /\ pc[p].respawn = "rekey"
    BY RespawnMoves, NotLive DEF Rekey, RespawnStep
  <1>2. /\ UNCHANGED <<session, transport, removal>> /\ Newest(p) \in byDownstream'
    BY DEF Rekey, managerVars
  <1>3. /\ proxy'[p].id = proxy[p].id /\ proxy'[p].gens = proxy[p].gens
        /\ proxy'[p].closed = proxy[p].closed /\ proxy'[p].ds = proxy[p].ds
        /\ proxy'[p].upstream = proxy[p].upstream
        /\ ~proxy[p].upstream => byUpstream' = byUpstream
    BY Fields DEF Rekey, Proxy
  <1>4. ASSUME NEW g \in Gens PROVE Held(p, g)'
    BY <1>1, <1>2, <1>3 DEF Steady, Held, Unspawned, Fresh
  <1>5. Alone(p)'
    BY <1>1, <1>3, StillAlone
  <1>6. Published(p)' /\ Indexed(p)'
    BY <1>1, <1>2, <1>3 DEF Published, Live, Indexed, Newest, Fresh
  <1> QED
    BY <1>4, <1>5, <1>6 DEF Steady

LEMMA PublishRespawnSteady ==
  ASSUME TypeOK, NEW p \in Proxies, Sound(p), Steady(p), PublishRespawn(p)
  PROVE  Steady(p)'
  <1> DEFINE n == proxy[p].gens
  <1>1. /\ pc[p].create \notin Fresh /\ pc'[p].create = pc[p].create
        /\ pc'[p].init = pc[p].init /\ pc'[p].delete = pc[p].delete
        /\ pc'[p].respawn = "retire" /\ pc[p].respawn = "list"
    BY RespawnMoves, NotLive DEF PublishRespawn, RespawnStep
  <1>2. /\ UNCHANGED <<session, transport, removal, byDownstream, byUpstream, probe>>
        /\ session[<<p, n>>] = "held"
    BY DEF PublishRespawn, managerVars, indexVars, Newest
  <1>3. /\ proxy'[p].id = n /\ proxy'[p].gens = n /\ proxy'[p].ds = n
        /\ proxy'[p].upstream = proxy[p].upstream
    BY Fields DEF PublishRespawn, Proxy
  <1>4. n \in Gens
    BY Fields
  <1>5. ASSUME NEW g \in Gens PROVE Held(p, g)'
    BY <1>1, <1>2, <1>3 DEF Steady, Held, Unspawned, Fresh
  <1>6. Good(p, n)'
    <2>1. Held(p, n) /\ Indexed(p)
      BY <1>4 DEF Steady
    <2>2. transport[<<p, n>>] = "open" /\ removal[<<p, n>>] = "none"
      BY <1>2, <2>1 DEF Held
    <2>3. <<p, n>> \in byDownstream
      BY <1>1, <1>2, <2>1 DEF Indexed, Newest
    <2> QED
      BY <1>2, <1>3, <2>2, <2>3 DEF Good
  <1>7. Alone(p)'
    BY <1>1, <1>2, <1>3, StillAlone
  <1>8. Published(p)' /\ Indexed(p)'
    BY <1>1, <1>3, <1>6 DEF Published, Indexed, Fresh
  <1> QED
    BY <1>5, <1>7, <1>8 DEF Steady

LEMMA RespawnEndsSteady ==
  ASSUME TypeOK, NEW p \in Proxies, Sound(p), Steady(p),
         RespawnListFails(p) \/ AbandonRespawn(p)
  PROVE  Steady(p)'
  <1>1. PICK to \in {"drop", "abandon"} :
          pc[p].respawn = "list" /\ pc' = [pc EXCEPT ![p].respawn = to]
    BY DEF RespawnListFails, AbandonRespawn, RespawnStep
  <1>2. /\ pc[p].create \notin Fresh /\ pc'[p].create = pc[p].create
        /\ pc'[p].init = pc[p].init /\ pc'[p].delete = pc[p].delete
        /\ pc'[p].respawn = to /\ ~Live(p)
    BY <1>1, RespawnMoves, NotLive
  <1>3. UNCHANGED <<proxy, byDownstream, byUpstream, probe>>
    BY DEF RespawnListFails, AbandonRespawn, proxyVars, indexVars
  <1>4. Removing(p)
    <2>1. CASE RespawnListFails(p)
      BY <2>1, RemoveRemoving, Fields DEF RespawnListFails, Newest
    <2>2. CASE AbandonRespawn(p)
      BY <2>2 DEF AbandonRespawn, managerVars, Removing
    <2> QED
      BY <2>1, <2>2
  <1>5. Alone(p)' /\ Passing(p) /\ ~Live(p)'
    BY <1>2, <1>3, StillAlone DEF Passing, Live
  <1> QED
    BY <1>3, <1>4, <1>5, PassingSteady DEF Removing

LEMMA DropSteady ==
  ASSUME TypeOK, NEW p \in Proxies, Sound(p), Steady(p), DropRekeyed(p)
  PROVE  Steady(p)'
  <1>1. PICK to \in {"none", "retireOnly"} :
          pc[p].respawn \in {"drop", "abandon"} /\ pc' = [pc EXCEPT ![p].respawn = to]
    BY DEF DropRekeyed, RespawnStep
  <1>2. /\ pc[p].create \notin Fresh /\ pc'[p].create = pc[p].create
        /\ pc'[p].init = pc[p].init /\ pc'[p].delete = pc[p].delete
        /\ pc'[p].respawn = to /\ ~Live(p)
    BY <1>1, RespawnMoves, NotLive
  <1>3. UNCHANGED <<session, transport, removal, proxy, byUpstream, probe>>
    BY DEF DropRekeyed, managerVars
  <1>4. ASSUME NEW g \in Gens PROVE Held(p, g)'
    BY <1>2, <1>3 DEF Steady, Held, Unspawned, Fresh
  <1>5. Alone(p)'
    BY <1>2, <1>3, StillAlone
  <1>6. Published(p)' /\ Indexed(p)'
    BY <1>2, <1>3 DEF Published, Live, Indexed, Fresh
  <1> QED
    BY <1>4, <1>5, <1>6 DEF Steady

LEMMA RetireSteady ==
  ASSUME TypeOK, NEW p \in Proxies, Sound(p), Steady(p), Retire(p)
  PROVE  Steady(p)'
  <1>1. pc[p].respawn \in {"retire", "retireOnly"} /\ pc' = [pc EXCEPT ![p].respawn = "none"]
    BY DEF Retire, RespawnStep
  <1>2. /\ pc[p].create \notin Fresh /\ pc'[p].create = pc[p].create
        /\ pc'[p].init = pc[p].init /\ pc'[p].delete = pc[p].delete
        /\ pc'[p].respawn = "none"
    BY <1>1, RespawnMoves, Built
  <1>3. UNCHANGED <<proxy, byDownstream, byUpstream>>
    BY DEF Retire, proxyVars, indexVars
  <1>4. Removing(p)
    BY RemoveRemoving, Fields DEF Retire
  <1>5. Alone(p)' /\ Passing(p)
    BY <1>2, <1>3, StillAlone DEF Passing
  <1>6. Live(p)' => Live(p) /\ proxy'[p].ds = proxy[p].ds
    BY <1>3 DEF Live
  <1> QED
    BY <1>2, <1>3, <1>4, <1>5, <1>6, PassingSteady DEF Removing

---------------------------------------------------------------------------
LEMMA InitSteady ==
  ASSUME Init
  PROVE  GInv
  <1>1. ASSUME NEW p \in Proxies PROVE Steady(p)
    <2>1. Alone(p)
      BY IdFacts DEF Init, Alone
    <2>2. ASSUME NEW g \in Gens PROVE Held(p, g)
      BY IdFacts DEF Init, ManagerInit, Held
    <2>3. Published(p) /\ Indexed(p)
      BY DEF Init, Published, Indexed, Live
    <2> QED
      BY <2>1, <2>2, <2>3 DEF Steady
  <1> QED
    BY <1>1, InitSound DEF GInv

(* The history stays, and is set by the one respawn that spoils Steady.    *)
LEMMA Overtaking ==
  ASSUME TypeOK, NEW p \in Proxies, Respawn(p), pc[p].create = "attach"
  PROVE  proxy'[p].overtaken
  BY Fields DEF Respawn, Proxy

LEMMA OvertakenStays ==
  ASSUME TypeOK, [Next]_vars, NEW p \in Proxies, proxy[p].overtaken
  PROVE  proxy'[p].overtaken
  <1>0. proxy \in [Proxies -> Proxy] /\ proxy[p] \in Proxy
    BY Fields
  <1>1. ASSUME NEW q \in Proxies, CloseDownstream(q) PROVE proxy'[p].overtaken
    BY <1>0, <1>1 DEF CloseDownstream, Proxy
  <1>2. ASSUME NEW q \in Proxies, ProxyStep(q) PROVE proxy'[p].overtaken
    <2>1. CASE \/ Attach(q) \/ Initialized(q) \/ Credit(q) \/ Respawn(q) \/ Rekey(q)
               \/ PublishRespawn(q)
      <3>1. \E r : proxy' = [proxy EXCEPT ![q] = r] /\ (proxy[q].overtaken => r.overtaken)
        <4>0. proxy[q] \in Proxy
          BY Fields
        <4>1. CASE Attach(q) \/ Rekey(q)
          BY <4>0, <4>1 DEF Attach, Rekey, Proxy
        <4>2. CASE Initialized(q) \/ Credit(q)
          BY <4>0, <4>2 DEF Initialized, Credit, Proxy
        <4>3. CASE Respawn(q) \/ PublishRespawn(q)
          BY <4>0, <4>3 DEF Respawn, PublishRespawn, Proxy
        <4> QED
          BY <2>1, <4>1, <4>2, <4>3
      <3> QED
        BY <1>0, <3>1
    <2>2. CASE ListFails(q) \/ LostRace(q) \/ DeleteCloses(q)
      BY <1>1, <2>2 DEF ListFails, LostRace, DeleteCloses
    <2>3. CASE \/ Open(q) \/ OpenFails(q) \/ Opened(q) \/ Listed(q) \/ Undo(q)
               \/ Publish(q) \/ Recheck(q) \/ RespawnFails(q) \/ Respawned(q)
               \/ RespawnListFails(q) \/ AbandonRespawn(q) \/ DropRekeyed(q) \/ Retire(q)
               \/ Delete(q) \/ DeleteRemoves(q)
      BY <2>3
      DEF Open, OpenFails, Opened, Listed, Undo, Publish, Recheck, RespawnFails,
          Respawned, RespawnListFails, AbandonRespawn, DropRekeyed, Retire, Delete,
          DeleteRemoves, proxyVars
    <2> QED
      BY <1>2, <2>1, <2>2, <2>3 DEF ProxyStep
  <1>3. ASSUME NEW i \in Ids, IdStep(i) PROVE proxy'[p].overtaken
    <2>1. CASE ProbeCloses(i) \/ Gate(i)
      BY <1>1, <2>1, IdFacts DEF ProbeCloses, Gate
    <2>2. CASE ProbeTrips(i) \/ ProbeEnds(i) \/ Reap(i) \/ Notify(i) \/ Shut(i)
      BY <2>2 DEF ProbeTrips, ProbeEnds, Reap, Notify, Shut, proxyVars
    <2> QED
      BY <1>3, <2>1, <2>2 DEF IdStep
  <1> QED
    BY <1>2, <1>3 DEF Next, CloseListener, vars, proxyVars

LEMMA ProxySteady ==
  ASSUME TypeOK, NEW p \in Proxies, Sound(p), Steady(p), ProxyStep(p)
  PROVE  proxy'[p].overtaken \/ Steady(p)'
  <1>1. CASE \/ Open(p) \/ OpenFails(p) \/ Opened(p) \/ Attach(p) \/ Listed(p)
             \/ ListFails(p) \/ Undo(p)
    BY <1>1, OpenSteady, OpenedSteady, AttachSteady, ListedSteady, ClosingSteady, UndoSteady
  <1>2. CASE \/ Initialized(p) \/ Credit(p) \/ Publish(p) \/ Recheck(p) \/ LostRace(p)
             \/ Delete(p) \/ DeleteCloses(p) \/ DeleteRemoves(p)
    BY <1>2, HandlersSteady, ClosingSteady
  <1>3. CASE \/ Respawn(p) \/ RespawnFails(p) \/ Respawned(p) \/ Rekey(p)
             \/ RespawnListFails(p) \/ PublishRespawn(p) \/ AbandonRespawn(p)
             \/ DropRekeyed(p) \/ Retire(p)
    BY <1>3, RespawnSteady, Overtaking, RespawnedSteady, RekeySteady, RespawnEndsSteady,
       PublishRespawnSteady, DropSteady, RetireSteady
  <1> QED
    BY <1>1, <1>2, <1>3 DEF ProxyStep

LEMMA IdSteady ==
  ASSUME TypeOK, NEW p \in Proxies, Sound(p), Steady(p), NEW g \in Gens, IdStep(<<p, g>>)
  PROVE  Steady(p)'
  <1>1. CASE \/ ProbeTrips(<<p, g>>) \/ ProbeEnds(<<p, g>>) \/ ProbeCloses(<<p, g>>)
             \/ Gate(<<p, g>>)
    BY <1>1, ProbeSteady, ClosingSteady
  <1>2. CASE Reap(<<p, g>>) \/ Notify(<<p, g>>) \/ Shut(<<p, g>>)
    BY <1>2, ReapSteady, NotifySteady, ShutSteady
  <1> QED
    BY <1>1, <1>2 DEF IdStep

LEMMA StepSteady ==
  ASSUME GInv, [Next]_vars
  PROVE  GInv'
  <1>0. /\ IInv /\ TypeOK /\ \A p \in Proxies : Sound(p)
        /\ \A p \in Proxies : proxy[p].overtaken \/ Steady(p)
    BY DEF GInv, IInv
  <1>i. IInv'
    BY <1>0, StepSound
  <1>o. \A p \in Proxies : proxy[p].overtaken => proxy'[p].overtaken
    BY <1>0, OvertakenStays
  <1>1. ASSUME NEW p \in Proxies, Others(p), proxy'[p].overtaken \/ Steady(p)' PROVE GInv'
    BY <1>0, <1>i, <1>o, <1>1, UntouchedSteady DEF GInv, Others
  <1>2. CASE \E p \in Proxies : ProxyStep(p)
    BY <1>0, <1>o, <1>1, <1>2, ProxySteps, ProxySteady
  <1>3. ASSUME NEW i \in Ids, IdStep(i) PROVE GInv'
    <2>1. i[1] \in Proxies /\ i[2] \in Gens /\ IdStep(<<i[1], i[2]>>)
      BY <1>3, IdFacts
    <2> QED
      BY <1>0, <1>o, <1>1, <2>1, IdSteps, IdSteady
  <1>4. CASE CloseListener
    BY <1>0, <1>i, <1>o, <1>4, CloseListenerSteady DEF GInv
  <1>5. CASE UNCHANGED vars
    <2>1. ASSUME NEW p \in Proxies PROVE proxy'[p].overtaken \/ Steady(p)'
      BY <1>0, <1>o, <1>5, UntouchedSteady
      DEF Untouched, vars, managerVars, proxyVars, indexVars
    <2> QED
      BY <1>i, <2>1 DEF GInv
  <1> QED
    BY <1>2, <1>3, <1>4, <1>5 DEF Next

(* Calls are gated before the connection is torn down: no published        *)
(* pointer names a closed connection, in every proxy session that no       *)
(* respawn overtook while its constructor was about to store the pointer.  *)
THEOREM GateHolds == Spec => []GateBeforeClose
  <1>1. Init => GInv
    BY InitSteady
  <1>2. GInv /\ [Next]_vars => GInv'
    BY StepSteady
  <1>3. GInv => GateBeforeClose
    BY DEF GInv, Steady, Published, Good, GateBeforeClose
  <1> QED
    BY <1>1, <1>2, <1>3, PTL DEF Spec
=============================================================================
