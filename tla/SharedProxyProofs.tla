------------------------- MODULE SharedProxyProofs -------------------------
(***************************************************************************)
(* Proofs about SharedProxy for any finite set of clients and any number   *)
(* of streams: a closed proxy session never gets a downstream again, and   *)
(* once its handlers have returned nothing leads to it.                    *)
(***************************************************************************)
EXTENDS SharedProxy, TLAPS

(* A closed session has no pointer and no credit.  closeOnce may be        *)
(* re-armed for one that is closed, never used up for one that is not.     *)
Detached(c) ==
  /\ proxy[c].closed => ~proxy[c].ds
  /\ proxy[c].once => proxy[c].closed
  /\ proxy[c].counted => ~proxy[c].closed

(* Before the constructor is done there is no upstream session, hence no   *)
(* handler; before it has begun there is no lease to expire.               *)
Early(c) ==
  /\ pc[c].create # "serving" => /\ sdk[c] = "none" /\ pc[c].call = "none"
                                 /\ pc[c].delete = "none" /\ pc[c].init = "none"
  /\ pc[c].create = "none" => /\ lease[c].state = "none" /\ pc[c].expiry = "none"
                              /\ ~proxy[c].closed
  /\ pc[c].init # "none" => proxy[c].upstream

(* Only the publication puts a closed session back into the index, and     *)
(* rechecks it.                                                            *)
Indexed(c) ==
  /\ pc[c].init \in {"none", "credit", "dead", "publish"} => c \notin byUpstream
  /\ proxy[c].closed /\ pc[c].init \notin {"recheck", "lost"}
       => c \notin byDownstream \cup byUpstream

(* A close that came before the subscription is made good by the handler   *)
(* of notifications/initialized, which re-arms closeOnce.                  *)
Subscribed(c) ==
  proxy[c].closed /\ (\/ pc[c].init \in {"publish", "recheck", "lost", "done"}
                      \/ pc[c].init = "dead" /\ proxy[c].once)
    => c \notin subscribers

(* The tracker counts no more streams than there are.                      *)
Tracked(c) ==
  conn[c].refs <= streams[c] /\ (~conn[c].known => conn[c].refs = 0)

Sound(c) == Detached(c) /\ Early(c) /\ Indexed(c) /\ Subscribed(c) /\ Tracked(c)

IInv == TypeOK /\ \A c \in Clients : Sound(c)

---------------------------------------------------------------------------
(* One thread of one client moves.                                         *)
CreatePlaces == {"none", "admit", "attach", "subscribe", "list", "serving", "failed"}
InitPlaces   == {"none", "credit", "dead", "publish", "recheck", "lost", "done"}
CallPlaces   == {"none", "handle", "enter", "admit", "answer"}

LEMMA CreateMoves ==
  ASSUME TypeOK, NEW c \in Clients, NEW to \in CreatePlaces, Goto(c, "create", to)
  PROVE  /\ pc' \in [Clients -> Threads] /\ \A d \in Clients \ {c} : pc'[d] = pc[d]
         /\ pc'[c].create = to /\ pc'[c].init = pc[c].init /\ pc'[c].call = pc[c].call
         /\ pc'[c].delete = pc[c].delete /\ pc'[c].expiry = pc[c].expiry
  <1> DEFINE r == [pc[c] EXCEPT !["create"] = to]
  <1>1. pc \in [Clients -> Threads] /\ pc[c] \in Threads
    BY DEF TypeOK
  <1>2. pc' = [pc EXCEPT ![c] = r]
    BY <1>1 DEF Goto
  <1>3. r \in Threads
    BY <1>1 DEF Threads, CreatePlaces
  <1>4. /\ r.create = to /\ r.init = pc[c].init /\ r.call = pc[c].call
        /\ r.delete = pc[c].delete /\ r.expiry = pc[c].expiry
    BY <1>1 DEF Threads
  <1> HIDE DEF r
  <1> QED
    BY <1>1, <1>2, <1>3, <1>4

LEMMA InitMoves ==
  ASSUME TypeOK, NEW c \in Clients, NEW to \in InitPlaces, Goto(c, "init", to)
  PROVE  /\ pc' \in [Clients -> Threads] /\ \A d \in Clients \ {c} : pc'[d] = pc[d]
         /\ pc'[c].create = pc[c].create /\ pc'[c].init = to /\ pc'[c].call = pc[c].call
         /\ pc'[c].delete = pc[c].delete /\ pc'[c].expiry = pc[c].expiry
  <1> DEFINE r == [pc[c] EXCEPT !["init"] = to]
  <1>1. pc \in [Clients -> Threads] /\ pc[c] \in Threads
    BY DEF TypeOK
  <1>2. pc' = [pc EXCEPT ![c] = r]
    BY <1>1 DEF Goto
  <1>3. r \in Threads
    BY <1>1 DEF Threads, InitPlaces
  <1>4. /\ r.init = to /\ r.create = pc[c].create /\ r.call = pc[c].call
        /\ r.delete = pc[c].delete /\ r.expiry = pc[c].expiry
    BY <1>1 DEF Threads
  <1> HIDE DEF r
  <1> QED
    BY <1>1, <1>2, <1>3, <1>4

LEMMA CallMoves ==
  ASSUME TypeOK, NEW c \in Clients, NEW to \in CallPlaces, Goto(c, "call", to)
  PROVE  /\ pc' \in [Clients -> Threads] /\ \A d \in Clients \ {c} : pc'[d] = pc[d]
         /\ pc'[c].create = pc[c].create /\ pc'[c].init = pc[c].init /\ pc'[c].call = to
         /\ pc'[c].delete = pc[c].delete /\ pc'[c].expiry = pc[c].expiry
  <1> DEFINE r == [pc[c] EXCEPT !["call"] = to]
  <1>1. pc \in [Clients -> Threads] /\ pc[c] \in Threads
    BY DEF TypeOK
  <1>2. pc' = [pc EXCEPT ![c] = r]
    BY <1>1 DEF Goto
  <1>3. r \in Threads
    BY <1>1 DEF Threads, CallPlaces
  <1>4. /\ r.call = to /\ r.create = pc[c].create /\ r.init = pc[c].init
        /\ r.delete = pc[c].delete /\ r.expiry = pc[c].expiry
    BY <1>1 DEF Threads
  <1> HIDE DEF r
  <1> QED
    BY <1>1, <1>2, <1>3, <1>4

LEMMA DeleteMoves ==
  ASSUME TypeOK, NEW c \in Clients, NEW to \in {"none", "sdk", "untrack"},
         Goto(c, "delete", to)
  PROVE  /\ pc' \in [Clients -> Threads] /\ \A d \in Clients \ {c} : pc'[d] = pc[d]
         /\ pc'[c].create = pc[c].create /\ pc'[c].init = pc[c].init
         /\ pc'[c].call = pc[c].call /\ pc'[c].expiry = pc[c].expiry
         /\ pc'[c].delete = to
  <1> DEFINE r == [pc[c] EXCEPT !["delete"] = to]
  <1>1. pc \in [Clients -> Threads] /\ pc[c] \in Threads
    BY DEF TypeOK
  <1>2. pc' = [pc EXCEPT ![c] = r]
    BY <1>1 DEF Goto
  <1>3. r \in Threads
    BY <1>1 DEF Threads
  <1>4. /\ r.delete = to /\ r.create = pc[c].create /\ r.init = pc[c].init
        /\ r.call = pc[c].call /\ r.expiry = pc[c].expiry
    BY <1>1 DEF Threads
  <1> HIDE DEF r
  <1> QED
    BY <1>1, <1>2, <1>3, <1>4

LEMMA ExpiryMoves ==
  ASSUME TypeOK, NEW c \in Clients, NEW to \in {"none", "callback", "close", "remove"},
         Goto(c, "expiry", to)
  PROVE  /\ pc' \in [Clients -> Threads] /\ \A d \in Clients \ {c} : pc'[d] = pc[d]
         /\ pc'[c].create = pc[c].create /\ pc'[c].init = pc[c].init
         /\ pc'[c].call = pc[c].call /\ pc'[c].delete = pc[c].delete
         /\ pc'[c].expiry = to
  <1> DEFINE r == [pc[c] EXCEPT !["expiry"] = to]
  <1>1. pc \in [Clients -> Threads] /\ pc[c] \in Threads
    BY DEF TypeOK
  <1>2. pc' = [pc EXCEPT ![c] = r]
    BY <1>1 DEF Goto
  <1>3. r \in Threads
    BY <1>1 DEF Threads
  <1>4. /\ r.expiry = to /\ r.create = pc[c].create /\ r.init = pc[c].init
        /\ r.call = pc[c].call /\ r.delete = pc[c].delete
    BY <1>1 DEF Threads
  <1> HIDE DEF r
  <1> QED
    BY <1>1, <1>2, <1>3, <1>4

LEMMA ReapMoves ==
  ASSUME TypeOK, NEW c \in Clients, NEW to \in {"none", "forget", "close"},
         Goto(c, "reap", to)
  PROVE  /\ pc' \in [Clients -> Threads] /\ \A d \in Clients \ {c} : pc'[d] = pc[d]
         /\ pc'[c].create = pc[c].create /\ pc'[c].init = pc[c].init
         /\ pc'[c].call = pc[c].call /\ pc'[c].delete = pc[c].delete
         /\ pc'[c].expiry = pc[c].expiry
  <1> DEFINE r == [pc[c] EXCEPT !["reap"] = to]
  <1>1. pc \in [Clients -> Threads] /\ pc[c] \in Threads
    BY DEF TypeOK
  <1>2. pc' = [pc EXCEPT ![c] = r]
    BY <1>1 DEF Goto
  <1>3. r \in Threads
    BY <1>1 DEF Threads
  <1>4. /\ r.create = pc[c].create /\ r.init = pc[c].init /\ r.call = pc[c].call
        /\ r.delete = pc[c].delete /\ r.expiry = pc[c].expiry
    BY <1>1 DEF Threads
  <1> HIDE DEF r
  <1> QED
    BY <1>1, <1>2, <1>3, <1>4

(* The operations of the manager on the record of one id.                  *)
LEMMA LeaseMoves ==
  ASSUME TypeOK, NEW c \in Clients,
         EnterLease(c) \/ SettleLease(c) \/ RollBackLease(c) \/ RemoveSession(c)
  PROVE  /\ lease' \in [Clients -> Lease]
         /\ \A d \in Clients \ {c} : lease'[d] = lease[d]
  <1>1. lease \in [Clients -> Lease] /\ lease[c] \in Lease
    BY DEF TypeOK
  <1>2. NoLease \in Lease
    BY DEF NoLease, Lease
  <1>3. /\ [lease[c] EXCEPT !.state = "pending"] \in Lease
        /\ [lease[c] EXCEPT !.state = "admitted"] \in Lease
    BY <1>1, Zenon DEF Lease
  <1> DEFINE p == [lease[c] EXCEPT !.state = "pending"]
             a == [lease[c] EXCEPT !.state = "admitted"]
  <1>4. lease' \in {lease, [lease EXCEPT ![c] = p], [lease EXCEPT ![c] = a],
                    [lease EXCEPT ![c] = NoLease]}
    BY DEF EnterLease, SettleLease, RollBackLease, RemoveSession
  <1>5. p \in Lease /\ a \in Lease
    BY <1>3
  <1> HIDE DEF p, a
  <1> QED
    BY <1>1, <1>2, <1>4, <1>5

(* The close of a proxy session, by whichever thread.                      *)
LEMMA Closing ==
  ASSUME TypeOK, NEW c \in Clients, Sound(c), CloseDownstream(c)
  PROVE  /\ proxy' \in [Clients -> Proxy]
         /\ \A d \in Clients \ {c} : proxy'[d] = proxy[d]
         /\ proxy'[c].upstream = proxy[c].upstream
         /\ proxy'[c].once /\ proxy'[c].closed /\ ~proxy'[c].ds /\ ~proxy'[c].counted
         /\ lease' \in [Clients -> Lease]
         /\ \A d \in Clients \ {c} : lease'[d] = lease[d]
         /\ subscribers' \in {subscribers, subscribers \ {c}}
         /\ ~proxy[c].once => c \notin subscribers'
         /\ sdk' \in [Clients -> {"none", "open", "closing", "closed"}]
         /\ \A d \in Clients \ {c} : sdk'[d] = sdk[d]
         /\ sdk[c] = "none" => sdk'[c] = "none"
         /\ byDownstream' = byDownstream \ {c}
         /\ byUpstream' \in {byUpstream, byUpstream \ {c}}
         /\ proxy[c].upstream => c \notin byUpstream'
         /\ up' = up /\ notifying' = notifying
  <1> DEFINE r == [proxy[c] EXCEPT !.once = TRUE, !.counted = FALSE, !.closed = TRUE,
                                   !.ds = FALSE]
  <1>1. proxy \in [Clients -> Proxy] /\ proxy[c] \in Proxy
    BY DEF TypeOK
  <1>2. r \in Proxy
    BY <1>1, Zenon DEF Proxy
  <1>3. r.upstream = proxy[c].upstream /\ r.once /\ r.closed /\ ~r.ds /\ ~r.counted
    BY <1>1 DEF Proxy
  <1>4. proxy' = [proxy EXCEPT ![c] = IF proxy[c].once THEN proxy[c] ELSE r]
    BY DEF CloseDownstream
  <1>5. proxy[c].once => proxy[c].closed /\ ~proxy[c].ds /\ ~proxy[c].counted
    BY DEF Sound, Detached
  <1> HIDE DEF r
  <1>6. /\ proxy' \in [Clients -> Proxy]
        /\ \A d \in Clients \ {c} : proxy'[d] = proxy[d]
        /\ proxy'[c].upstream = proxy[c].upstream
        /\ proxy'[c].once /\ proxy'[c].closed /\ ~proxy'[c].ds /\ ~proxy'[c].counted
    BY <1>1, <1>2, <1>3, <1>4, <1>5
  <1>7. /\ lease' \in [Clients -> Lease]
        /\ \A d \in Clients \ {c} : lease'[d] = lease[d]
    <2>1. lease' = lease \/ RemoveSession(c)
      BY DEF CloseDownstream
    <2> QED
      BY <2>1, LeaseMoves DEF TypeOK
  <1>8. /\ sdk' \in [Clients -> {"none", "open", "closing", "closed"}]
        /\ \A d \in Clients \ {c} : sdk'[d] = sdk[d]
        /\ sdk[c] = "none" => sdk'[c] = "none"
    <2>1. sdk' = sdk \/ (sdk[c] = "open" /\ sdk' = [sdk EXCEPT ![c] = "closing"])
      BY DEF CloseDownstream
    <2> QED
      BY <2>1 DEF TypeOK
  <1>9. /\ subscribers' \in {subscribers, subscribers \ {c}}
        /\ ~proxy[c].once => c \notin subscribers'
        /\ byDownstream' = byDownstream \ {c}
        /\ byUpstream' \in {byUpstream, byUpstream \ {c}}
        /\ proxy[c].upstream => c \notin byUpstream'
        /\ up' = up /\ notifying' = notifying
    BY DEF CloseDownstream
  <1> QED
    BY <1>6, <1>7, <1>8, <1>9

---------------------------------------------------------------------------
(* A step of one client leaves the others alone.                           *)
Untouched(d) ==
  /\ lease'[d] = lease[d] /\ proxy'[d] = proxy[d] /\ sdk'[d] = sdk[d]
  /\ streams'[d] = streams[d] /\ conn'[d] = conn[d] /\ pc'[d] = pc[d]
  /\ d \in subscribers' <=> d \in subscribers
  /\ d \in byDownstream' <=> d \in byDownstream
  /\ d \in byUpstream' <=> d \in byUpstream

Others(c) == \A d \in Clients \ {c} : Untouched(d)

LEMMA UntouchedSound ==
  ASSUME NEW d \in Clients, Sound(d), Untouched(d)
  PROVE  Sound(d)'
  <1>1. Detached(d)' /\ Early(d)'
    BY DEF Sound, Detached, Early, Untouched
  <1>2. Indexed(d)' /\ Subscribed(d)' /\ Tracked(d)'
    BY DEF Sound, Indexed, Subscribed, Tracked, Untouched
  <1> QED
    BY <1>1, <1>2 DEF Sound

LEMMA Fields ==
  ASSUME TypeOK, NEW c \in Clients
  PROVE  /\ proxy \in [Clients -> Proxy] /\ proxy[c] \in Proxy
         /\ lease \in [Clients -> Lease] /\ lease[c] \in Lease
         /\ conn \in [Clients -> Conn] /\ conn[c] \in Conn
         /\ pc \in [Clients -> Threads] /\ pc[c] \in Threads
         /\ sdk \in [Clients -> {"none", "open", "closing", "closed"}]
         /\ streams \in [Clients -> 0 .. MaxStreams]
  BY DEF TypeOK

---------------------------------------------------------------------------
(* The constructor.                                                        *)
LEMMA OpenSteps ==
  ASSUME TypeOK, NEW c \in Clients, Sound(c), Open(c) \/ OpenFails(c) \/ Opened(c)
  PROVE  TypeOK' /\ Others(c) /\ Sound(c)'
  <1>1. PICK to \in {"admit", "failed", "attach"} :
          /\ Goto(c, "create", to) /\ pc[c].create \in {"none", "admit"}
          /\ to # "admit" => byDownstream' \subseteq byDownstream
          /\ to = "admit" => pc[c].create = "none"
    BY DEF Open, OpenFails, Opened, Create, At, indexVars
  <1>2. /\ pc' \in [Clients -> Threads] /\ \A d \in Clients \ {c} : pc'[d] = pc[d]
        /\ pc'[c].create = to /\ pc'[c].init = pc[c].init /\ pc'[c].call = pc[c].call
        /\ pc'[c].delete = pc[c].delete /\ pc'[c].expiry = pc[c].expiry
    BY <1>1, CreateMoves DEF CreatePlaces
  <1>3. /\ lease' \in [Clients -> Lease]
        /\ \A d \in Clients \ {c} : lease'[d] = lease[d]
    BY LeaseMoves DEF Open, OpenFails, Opened
  <1>4. /\ UNCHANGED <<idleReap, up, subscribers, notifying, byUpstream, proxy, sdk,
                       streams, conn>>
        /\ byDownstream' \in {byDownstream, byDownstream \cup {c}, byDownstream \ {c}}
    BY DEF Open, OpenFails, Opened, indexVars, trackerVars
  <1>5. TypeOK'
    BY <1>2, <1>3, <1>4 DEF TypeOK
  <1>6. Others(c)
    BY <1>2, <1>3, <1>4 DEF Others, Untouched
  <1>7. Sound(c)'
    <2>1. Detached(c)' /\ Tracked(c)'
      BY <1>4 DEF Sound, Detached, Tracked
    <2>2. Early(c)'
      BY <1>1, <1>2, <1>4 DEF Sound, Early
    <2>3. Indexed(c)' /\ Subscribed(c)'
      BY <1>1, <1>2, <1>4 DEF Sound, Early, Indexed, Subscribed
    <2> QED
      BY <2>1, <2>2, <2>3 DEF Sound
  <1> QED
    BY <1>5, <1>6, <1>7

LEMMA AttachSteps ==
  ASSUME TypeOK, NEW c \in Clients, Sound(c), Attach(c)
  PROVE  TypeOK' /\ Others(c) /\ Sound(c)'
  <1>1. /\ pc' \in [Clients -> Threads] /\ \A d \in Clients \ {c} : pc'[d] = pc[d]
        /\ pc[c].create = "attach" /\ pc'[c].create = "subscribe"
        /\ pc'[c].init = pc[c].init /\ pc'[c].call = pc[c].call
        /\ pc'[c].delete = pc[c].delete /\ pc'[c].expiry = pc[c].expiry
    BY CreateMoves DEF Attach, Create, At, CreatePlaces
  <1>2. UNCHANGED <<idleReap, up, lease, subscribers, notifying, byDownstream, byUpstream,
                    sdk, streams, conn>>
    BY DEF Attach, managerVars, indexVars, trackerVars
  <1> DEFINE b == ~proxy[c].closed
             r == [proxy[c] EXCEPT !.ds = b]
  <1>3. proxy \in [Clients -> Proxy] /\ proxy[c] \in Proxy /\ b \in BOOLEAN
    BY Fields
  <1>4. proxy' = [proxy EXCEPT ![c] = r]
    BY <1>3 DEF Attach
  <1>5. r \in Proxy
    BY <1>3, Zenon DEF Proxy
  <1>6. /\ r.closed = proxy[c].closed /\ r.once = proxy[c].once
        /\ r.counted = proxy[c].counted /\ r.upstream = proxy[c].upstream
        /\ proxy[c].closed => ~r.ds
    BY <1>3 DEF Proxy
  <1> HIDE DEF r, b
  <1>7. proxy' \in [Clients -> Proxy] /\ proxy'[c] = r
        /\ \A d \in Clients \ {c} : proxy'[d] = proxy[d]
    BY <1>3, <1>4, <1>5
  <1>8. TypeOK'
    BY <1>1, <1>2, <1>7 DEF TypeOK
  <1>9. Others(c)
    BY <1>1, <1>2, <1>7 DEF Others, Untouched
  <1>10. Sound(c)'
    <2>1. Detached(c)' /\ Early(c)'
      BY <1>1, <1>2, <1>6, <1>7 DEF Sound, Detached, Early
    <2>2. Indexed(c)' /\ Subscribed(c)' /\ Tracked(c)'
      BY <1>1, <1>2, <1>6, <1>7 DEF Sound, Indexed, Subscribed, Tracked
    <2> QED
      BY <2>1, <2>2 DEF Sound
  <1> QED
    BY <1>8, <1>9, <1>10

LEMMA SubscribeSteps ==
  ASSUME TypeOK, NEW c \in Clients, Sound(c), Subscribe(c) \/ Listed(c)
  PROVE  TypeOK' /\ Others(c) /\ Sound(c)'
  <1>1. PICK to \in {"list", "serving"} :
          /\ Goto(c, "create", to) /\ pc[c].create \in {"subscribe", "list"}
          /\ to # "serving" => sdk' = sdk
    BY DEF Subscribe, Listed, Create, At
  <1>2. /\ pc' \in [Clients -> Threads] /\ \A d \in Clients \ {c} : pc'[d] = pc[d]
        /\ pc'[c].create = to /\ pc'[c].init = pc[c].init /\ pc'[c].call = pc[c].call
        /\ pc'[c].delete = pc[c].delete /\ pc'[c].expiry = pc[c].expiry
    BY <1>1, CreateMoves DEF CreatePlaces
  <1>3. /\ UNCHANGED <<idleReap, up, lease, notifying, byDownstream, byUpstream, proxy,
                       streams, conn>>
        /\ subscribers' \in {subscribers, subscribers \cup {c}}
        /\ sdk' \in {sdk, [sdk EXCEPT ![c] = "open"]}
    BY DEF Subscribe, Listed, managerVars, indexVars, trackerVars
  <1>4. TypeOK'
    BY <1>2, <1>3 DEF TypeOK
  <1>5. Others(c)
    BY <1>2, <1>3 DEF Others, Untouched, TypeOK
  <1>6. Sound(c)'
    <2>1. pc'[c].init = "none" /\ pc[c].init = "none"
      BY <1>1, <1>2 DEF Sound, Early
    <2>2. Detached(c)' /\ Early(c)'
      BY <1>1, <1>2, <1>3, <2>1 DEF Sound, Detached, Early
    <2>3. Indexed(c)' /\ Subscribed(c)' /\ Tracked(c)'
      BY <1>2, <1>3, <2>1 DEF Sound, Indexed, Subscribed, Tracked
    <2> QED
      BY <2>2, <2>3 DEF Sound
  <1> QED
    BY <1>4, <1>5, <1>6

---------------------------------------------------------------------------
(* The handler of notifications/initialized.                               *)
LEMMA InitializedSteps ==
  ASSUME TypeOK, NEW c \in Clients, Sound(c), Initialized(c)
  PROVE  TypeOK' /\ Others(c) /\ Sound(c)'
  <1>1. /\ pc' \in [Clients -> Threads] /\ \A d \in Clients \ {c} : pc'[d] = pc[d]
        /\ pc[c].create = "serving" /\ pc'[c].create = "serving"
        /\ pc[c].init = "none" /\ pc'[c].init = "credit"
        /\ pc'[c].call = pc[c].call /\ pc'[c].delete = pc[c].delete
    BY InitMoves DEF Initialized, InitStep, At, InitPlaces
  <1>2. UNCHANGED <<idleReap, up, lease, subscribers, notifying, byDownstream, byUpstream,
                    sdk, streams, conn>>
    BY DEF Initialized, managerVars, indexVars, trackerVars
  <1> DEFINE r == [proxy[c] EXCEPT !.upstream = TRUE]
  <1>3. proxy \in [Clients -> Proxy] /\ proxy[c] \in Proxy
    BY Fields
  <1>4. proxy' = [proxy EXCEPT ![c] = r]
    BY <1>3 DEF Initialized
  <1>5. r \in Proxy
    BY <1>3, Zenon DEF Proxy
  <1>6. /\ r.closed = proxy[c].closed /\ r.once = proxy[c].once /\ r.ds = proxy[c].ds
        /\ r.counted = proxy[c].counted /\ r.upstream
    BY <1>3 DEF Proxy
  <1> HIDE DEF r
  <1>7. /\ proxy' \in [Clients -> Proxy] /\ proxy'[c] = r
        /\ \A d \in Clients \ {c} : proxy'[d] = proxy[d]
    BY <1>3, <1>4, <1>5
  <1>8. TypeOK'
    BY <1>1, <1>2, <1>7 DEF TypeOK
  <1>9. Others(c)
    BY <1>1, <1>2, <1>7 DEF Others, Untouched
  <1>10. Sound(c)'
    <2>1. Detached(c)' /\ Early(c)'
      BY <1>1, <1>2, <1>6, <1>7 DEF Sound, Detached, Early
    <2>2. Indexed(c)' /\ Subscribed(c)' /\ Tracked(c)'
      BY <1>1, <1>2, <1>6, <1>7 DEF Sound, Indexed, Subscribed, Tracked
    <2> QED
      BY <2>1, <2>2 DEF Sound
  <1> QED
    BY <1>8, <1>9, <1>10

(* The credit of a live session, or closeOnce re-armed for a dead one.     *)
LEMMA CreditSteps ==
  ASSUME TypeOK, NEW c \in Clients, Sound(c), Credit(c)
  PROVE  TypeOK' /\ Others(c) /\ Sound(c)'
  <1>1. PICK to \in {"publish", "dead"} :
          /\ Goto(c, "init", to) /\ pc[c].init = "credit"
          /\ to = "publish" => /\ ~proxy[c].closed
                               /\ proxy' = [proxy EXCEPT ![c].counted = TRUE]
          /\ to = "dead" => proxy' = [proxy EXCEPT ![c].once = FALSE]
    BY DEF Credit, InitStep, At
  <1>2. /\ pc' \in [Clients -> Threads] /\ \A d \in Clients \ {c} : pc'[d] = pc[d]
        /\ pc'[c].create = pc[c].create /\ pc'[c].init = to
        /\ pc'[c].call = pc[c].call /\ pc'[c].delete = pc[c].delete
        /\ pc'[c].expiry = pc[c].expiry
    BY <1>1, InitMoves DEF InitPlaces
  <1>3. UNCHANGED <<idleReap, up, lease, subscribers, notifying, byDownstream, byUpstream,
                    sdk, streams, conn>>
    BY DEF Credit, managerVars, indexVars, trackerVars
  <1> DEFINE k == [proxy[c] EXCEPT !.counted = TRUE]
             o == [proxy[c] EXCEPT !.once = FALSE]
  <1>4. proxy \in [Clients -> Proxy] /\ proxy[c] \in Proxy
    BY Fields
  <1>5. /\ to = "publish" => proxy' = [proxy EXCEPT ![c] = k]
        /\ to = "dead" => proxy' = [proxy EXCEPT ![c] = o]
    BY <1>1, <1>4
  <1>6. k \in Proxy /\ o \in Proxy
    BY <1>4, Zenon DEF Proxy
  <1>7. /\ k.closed = proxy[c].closed /\ k.once = proxy[c].once /\ k.ds = proxy[c].ds
        /\ k.upstream = proxy[c].upstream
        /\ o.closed = proxy[c].closed /\ ~o.once /\ o.ds = proxy[c].ds
        /\ o.upstream = proxy[c].upstream /\ o.counted = proxy[c].counted
    BY <1>4 DEF Proxy
  <1> HIDE DEF k, o
  <1>8. /\ proxy' \in [Clients -> Proxy]
        /\ proxy'[c] = IF to = "publish" THEN k ELSE o
        /\ \A d \in Clients \ {c} : proxy'[d] = proxy[d]
    BY <1>1, <1>4, <1>5, <1>6
  <1>9. TypeOK'
    BY <1>2, <1>3, <1>8 DEF TypeOK
  <1>10. Others(c)
    BY <1>2, <1>3, <1>8 DEF Others, Untouched
  <1>11. Sound(c)'
    <2>1. Detached(c)' /\ Early(c)'
      BY <1>1, <1>2, <1>3, <1>7, <1>8 DEF Sound, Detached, Early
    <2>2. Indexed(c)' /\ Subscribed(c)' /\ Tracked(c)'
      BY <1>1, <1>2, <1>3, <1>7, <1>8 DEF Sound, Indexed, Subscribed, Tracked
    <2> QED
      BY <2>1, <2>2 DEF Sound
  <1> QED
    BY <1>9, <1>10, <1>11

LEMMA PublishSteps ==
  ASSUME TypeOK, NEW c \in Clients, Sound(c), Publish(c) \/ Recheck(c)
  PROVE  TypeOK' /\ Others(c) /\ Sound(c)'
  <1>1. PICK to \in {"recheck", "done", "lost"} :
          /\ Goto(c, "init", to)
          /\ \/ pc[c].init = "publish" /\ to = "recheck"
             \/ /\ pc[c].init = "recheck" /\ to \in {"done", "lost"}
                /\ to = "done" => ~proxy[c].closed
    BY DEF Publish, Recheck, InitStep, At
  <1>2. /\ pc' \in [Clients -> Threads] /\ \A d \in Clients \ {c} : pc'[d] = pc[d]
        /\ pc'[c].create = pc[c].create /\ pc'[c].init = to
        /\ pc'[c].call = pc[c].call /\ pc'[c].delete = pc[c].delete
        /\ pc'[c].expiry = pc[c].expiry
    BY <1>1, InitMoves DEF InitPlaces
  <1>3. /\ UNCHANGED <<idleReap, up, lease, subscribers, notifying, proxy, sdk, streams,
                       conn>>
        /\ byUpstream' \in {byUpstream, byUpstream \cup {c}}
        /\ byDownstream' \in {byDownstream, byDownstream \cup {c}}
    BY DEF Publish, Recheck, managerVars, indexVars, trackerVars
  <1>4. TypeOK'
    BY <1>2, <1>3 DEF TypeOK
  <1>5. Others(c)
    BY <1>2, <1>3 DEF Others, Untouched
  <1>6. Sound(c)'
    <2>1. Detached(c)' /\ Early(c)'
      BY <1>1, <1>2, <1>3 DEF Sound, Detached, Early
    <2>2. Indexed(c)' /\ Subscribed(c)' /\ Tracked(c)'
      BY <1>1, <1>2, <1>3 DEF Sound, Indexed, Subscribed, Tracked
    <2> QED
      BY <2>1, <2>2 DEF Sound
  <1> QED
    BY <1>4, <1>5, <1>6

---------------------------------------------------------------------------
(* A tool call, which only touches the lease.                              *)
LEMMA CallSteps ==
  ASSUME TypeOK, NEW c \in Clients, Sound(c),
         CallArrives(c) \/ GetDownstream(c) \/ Reenter(c) \/ Readmit(c) \/ CallEnds(c)
  PROVE  TypeOK' /\ Others(c) /\ Sound(c)'
  <1>1. PICK to \in CallPlaces :
          Goto(c, "call", to) /\ (sdk[c] = "open" \/ pc[c].call # "none")
    BY DEF CallArrives, GetDownstream, Reenter, Readmit, CallEnds, CallStep, At, CallPlaces
  <1>2. /\ pc' \in [Clients -> Threads] /\ \A d \in Clients \ {c} : pc'[d] = pc[d]
        /\ pc'[c].create = pc[c].create /\ pc'[c].init = pc[c].init
        /\ pc'[c].delete = pc[c].delete /\ pc'[c].expiry = pc[c].expiry
    BY <1>1, CallMoves
  <1>3. UNCHANGED <<idleReap, up, subscribers, notifying, byDownstream, byUpstream, proxy,
                    sdk, streams, conn>>
    BY DEF CallArrives, GetDownstream, Reenter, Readmit, CallEnds, managerVars, indexVars,
           trackerVars
  <1>4. /\ lease' \in [Clients -> Lease]
        /\ \A d \in Clients \ {c} : lease'[d] = lease[d]
    <2>1. CASE CallArrives(c) \/ CallEnds(c)
      <3> DEFINE t == [lease[c] EXCEPT !.inFlight = TRUE]
                 f == [lease[c] EXCEPT !.inFlight = FALSE]
      <3>1. lease' \in {lease, [lease EXCEPT ![c] = t], [lease EXCEPT ![c] = f]}
        BY <2>1, Fields DEF CallArrives, CallEnds
      <3>2. t \in Lease /\ f \in Lease
        BY Fields, Zenon DEF Lease
      <3> HIDE DEF t, f
      <3> QED
        BY <3>1, <3>2, Fields
    <2>2. CASE GetDownstream(c) \/ Reenter(c) \/ Readmit(c)
      BY <2>2, LeaseMoves DEF GetDownstream, Reenter, Readmit, managerVars, TypeOK
    <2> QED
      BY <2>1, <2>2
  <1>5. TypeOK'
    BY <1>2, <1>3, <1>4 DEF TypeOK
  <1>6. Others(c)
    BY <1>2, <1>3, <1>4 DEF Others, Untouched
  <1>7. Sound(c)'
    <2>1. pc[c].create = "serving"
      BY <1>1 DEF Sound, Early
    <2>2. Detached(c)' /\ Early(c)'
      BY <1>2, <1>3, <2>1 DEF Sound, Detached, Early
    <2>3. Indexed(c)' /\ Subscribed(c)' /\ Tracked(c)'
      BY <1>2, <1>3 DEF Sound, Indexed, Subscribed, Tracked
    <2> QED
      BY <2>2, <2>3 DEF Sound
  <1> QED
    BY <1>5, <1>6, <1>7

---------------------------------------------------------------------------
(* DELETE, as far as the SDK's handler goes.                               *)
LEMMA SdkSteps ==
  ASSUME TypeOK, NEW c \in Clients, Sound(c), SdkCloses(c) \/ Delete(c)
  PROVE  TypeOK' /\ Others(c) /\ Sound(c)'
  <1>1. /\ pc[c].create = "serving" /\ pc'[c].create = "serving"
        /\ pc' \in [Clients -> Threads] /\ \A d \in Clients \ {c} : pc'[d] = pc[d]
        /\ pc'[c].init = pc[c].init
    <2>1. CASE SdkCloses(c)
      BY <2>1, Fields DEF SdkCloses, Sound, Early
    <2>2. CASE Delete(c)
      BY <2>2, DeleteMoves DEF Delete, At
    <2> QED
      BY <2>1, <2>2
  <1>2. /\ sdk' \in [Clients -> {"none", "open", "closing", "closed"}]
        /\ \A d \in Clients \ {c} : sdk'[d] = sdk[d]
    BY Fields DEF SdkCloses, Delete
  <1>3. UNCHANGED <<idleReap, up, lease, subscribers, notifying, byDownstream, byUpstream,
                    proxy, streams, conn>>
    BY DEF SdkCloses, Delete, managerVars, indexVars, trackerVars
  <1>4. TypeOK'
    BY <1>1, <1>2, <1>3 DEF TypeOK
  <1>5. Others(c)
    BY <1>1, <1>2, <1>3 DEF Others, Untouched
  <1>6. Sound(c)'
    <2>1. Detached(c)' /\ Early(c)'
      BY <1>1, <1>3 DEF Sound, Detached, Early
    <2>2. Indexed(c)' /\ Subscribed(c)' /\ Tracked(c)'
      BY <1>1, <1>3 DEF Sound, Indexed, Subscribed, Tracked
    <2> QED
      BY <2>1, <2>2 DEF Sound
  <1> QED
    BY <1>4, <1>5, <1>6

---------------------------------------------------------------------------
(* The threads that close a proxy session: the constructor, the handlers   *)
(* of initialized and of DELETE, the expiry, the reap of a gone client.    *)
LEMMA ClosingSteps ==
  ASSUME TypeOK, NEW c \in Clients, Sound(c), CloseDownstream(c),
         ListFails(c) \/ CloseDead(c) \/ DeleteCloses(c) \/ ExpiryCloses(c) \/ ReapCloses(c)
  PROVE  TypeOK' /\ Others(c) /\ Sound(c)'
  <1>1. /\ pc' \in [Clients -> Threads] /\ \A d \in Clients \ {c} : pc'[d] = pc[d]
        /\ pc[c].create # "none" /\ pc'[c].create # "none"
        /\ pc'[c].create # "serving" =>
             /\ pc[c].create # "serving" /\ pc'[c].init = pc[c].init
             /\ pc'[c].call = pc[c].call /\ pc'[c].delete = pc[c].delete
        /\ pc'[c].init # pc[c].init => pc[c].init \in {"dead", "lost"} /\ pc'[c].init = "done"
    <2>1. CASE ListFails(c)
      BY <2>1, CreateMoves DEF ListFails, Create, At, CreatePlaces
    <2>2. CASE CloseDead(c)
      <3>1. pc[c].init \in {"dead", "lost"} /\ Goto(c, "init", "done")
        BY <2>2 DEF CloseDead, InitStep, At
      <3>2. pc[c].create = "serving"
        BY <3>1 DEF Sound, Early
      <3> QED
        BY <3>1, <3>2, InitMoves DEF InitPlaces
    <2>3. CASE DeleteCloses(c)
      <3>1. pc[c].create = "serving"
        BY <2>3 DEF DeleteCloses, At, Sound, Early
      <3> QED
        BY <2>3, <3>1, DeleteMoves DEF DeleteCloses
    <2>4. CASE ExpiryCloses(c)
      <3>1. pc[c].create # "none"
        BY <2>4 DEF ExpiryCloses, At, Sound, Early
      <3> QED
        BY <2>4, <3>1, ExpiryMoves DEF ExpiryCloses
    <2>5. CASE ReapCloses(c)
      <3>1. Goto(c, "reap", "none") /\ (c \in byUpstream \/ UNCHANGED proxy)
        BY <2>5 DEF ReapCloses
      <3>2. pc[c].create # "none"
        <4>1. CASE c \in byUpstream
          BY <4>1 DEF Sound, Early, Indexed
        <4>2. CASE UNCHANGED proxy
          BY <4>2, Closing DEF Sound, Early
        <4> QED
          BY <3>1, <4>1, <4>2
      <3> QED
        BY <3>1, <3>2, ReapMoves
    <2> QED
      BY <2>1, <2>2, <2>3, <2>4, <2>5
  <1>2. UNCHANGED <<idleReap, streams, conn>>
    BY DEF ListFails, CloseDead, DeleteCloses, ExpiryCloses, ReapCloses, trackerVars
  <1>3. /\ proxy' \in [Clients -> Proxy]
        /\ \A d \in Clients \ {c} : proxy'[d] = proxy[d]
        /\ proxy'[c].upstream = proxy[c].upstream
        /\ proxy'[c].once /\ proxy'[c].closed /\ ~proxy'[c].ds /\ ~proxy'[c].counted
        /\ lease' \in [Clients -> Lease]
        /\ \A d \in Clients \ {c} : lease'[d] = lease[d]
        /\ subscribers' \in {subscribers, subscribers \ {c}}
        /\ ~proxy[c].once => c \notin subscribers'
        /\ sdk' \in [Clients -> {"none", "open", "closing", "closed"}]
        /\ \A d \in Clients \ {c} : sdk'[d] = sdk[d]
        /\ sdk[c] = "none" => sdk'[c] = "none"
        /\ byDownstream' = byDownstream \ {c}
        /\ byUpstream' \in {byUpstream, byUpstream \ {c}}
        /\ proxy[c].upstream => c \notin byUpstream'
        /\ up' = up /\ notifying' = notifying
    BY Closing
  <1>4. TypeOK'
    BY <1>1, <1>2, <1>3 DEF TypeOK
  <1>5. Others(c)
    BY <1>1, <1>2, <1>3 DEF Others, Untouched
  <1>6. Sound(c)'
    <2>1. Detached(c)' /\ Tracked(c)'
      BY <1>2, <1>3 DEF Sound, Detached, Tracked
    <2>2. Early(c)'
      BY <1>1, <1>3 DEF Sound, Early
    <2>3. Indexed(c)'
      BY <1>1, <1>3 DEF Sound, Early, Indexed
    <2>4. Subscribed(c)'
      BY <1>1, <1>3 DEF Sound, Detached, Subscribed
    <2> QED
      BY <2>1, <2>2, <2>3, <2>4 DEF Sound
  <1> QED
    BY <1>4, <1>5, <1>6

(* DELETE and the reap of a session that is not in the index.              *)
LEMMA NothingToClose ==
  ASSUME TypeOK, NEW c \in Clients, Sound(c), UNCHANGED <<managerVars, indexVars, proxy, sdk>>,
         DeleteCloses(c) \/ ReapCloses(c)
  PROVE  TypeOK' /\ Others(c) /\ Sound(c)'
  <1>1. /\ pc' \in [Clients -> Threads] /\ \A d \in Clients \ {c} : pc'[d] = pc[d]
        /\ pc'[c].create = pc[c].create /\ pc'[c].init = pc[c].init
        /\ pc'[c].call = pc[c].call /\ pc'[c].expiry = pc[c].expiry
        /\ pc'[c].delete = pc[c].delete \/ pc[c].delete # "none"
    BY DeleteMoves, ReapMoves DEF DeleteCloses, ReapCloses, At
  <1>2. UNCHANGED <<idleReap, up, lease, subscribers, notifying, byDownstream, byUpstream,
                    proxy, sdk, streams, conn>>
    BY DEF DeleteCloses, ReapCloses, managerVars, indexVars, trackerVars
  <1>3. TypeOK' /\ Others(c)
    BY <1>1, <1>2 DEF TypeOK, Others, Untouched
  <1>4. Sound(c)'
    <2>1. Detached(c)' /\ Early(c)'
      BY <1>1, <1>2 DEF Sound, Detached, Early
    <2>2. Indexed(c)' /\ Subscribed(c)' /\ Tracked(c)'
      BY <1>1, <1>2 DEF Sound, Indexed, Subscribed, Tracked
    <2> QED
      BY <2>1, <2>2 DEF Sound
  <1> QED
    BY <1>3, <1>4

---------------------------------------------------------------------------
(* The reaper of the manager and its callback.                             *)
LEMMA ExpirySteps ==
  ASSUME TypeOK, NEW c \in Clients, Sound(c), Expire(c) \/ Expired(c) \/ ExpiryRemoves(c)
  PROVE  TypeOK' /\ Others(c) /\ Sound(c)'
  <1>1. PICK to \in {"none", "callback", "close", "remove"} :
          /\ Goto(c, "expiry", to)
          /\ lease[c].state # "none" \/ pc[c].expiry # "none"
    BY DEF Expire, Expired, ExpiryRemoves, At
  <1>2. /\ pc' \in [Clients -> Threads] /\ \A d \in Clients \ {c} : pc'[d] = pc[d]
        /\ pc'[c].create = pc[c].create /\ pc'[c].init = pc[c].init
        /\ pc'[c].call = pc[c].call /\ pc'[c].delete = pc[c].delete
    BY <1>1, ExpiryMoves
  <1>3. /\ UNCHANGED <<idleReap, up, subscribers, notifying, byUpstream, proxy, sdk, streams,
                       conn>>
        /\ byDownstream' \in {byDownstream, byDownstream \ {c}}
    BY DEF Expire, Expired, ExpiryRemoves, managerVars, indexVars, trackerVars
  <1>4. /\ lease' \in [Clients -> Lease]
        /\ \A d \in Clients \ {c} : lease'[d] = lease[d]
    <2>1. CASE Expire(c)
      <3> DEFINE e == [lease[c] EXCEPT !.expiring = TRUE]
      <3>1. lease' = [lease EXCEPT ![c] = e]
        BY <2>1, Fields DEF Expire
      <3>2. e \in Lease
        BY Fields, Zenon DEF Lease
      <3> HIDE DEF e
      <3> QED
        BY <3>1, <3>2, Fields
    <2>2. CASE Expired(c) \/ ExpiryRemoves(c)
      BY <2>2, LeaseMoves DEF Expired, ExpiryRemoves, managerVars, TypeOK
    <2> QED
      BY <2>1, <2>2
  <1>5. TypeOK'
    BY <1>2, <1>3, <1>4 DEF TypeOK
  <1>6. Others(c)
    BY <1>2, <1>3, <1>4 DEF Others, Untouched
  <1>7. Sound(c)'
    <2>1. pc[c].create # "none"
      BY <1>1 DEF Sound, Early
    <2>2. Detached(c)' /\ Early(c)'
      BY <1>2, <1>3, <2>1 DEF Sound, Detached, Early
    <2>3. Indexed(c)' /\ Subscribed(c)' /\ Tracked(c)'
      BY <1>2, <1>3 DEF Sound, Indexed, Subscribed, Tracked
    <2> QED
      BY <2>2, <2>3 DEF Sound
  <1> QED
    BY <1>5, <1>6, <1>7

---------------------------------------------------------------------------
(* The disconnect tracker.  The streams of a client and its record.        *)
LEMMA TrackRequestSteps ==
  ASSUME TypeOK, NEW c \in Clients, Sound(c), TrackRequest(c)
  PROVE  TypeOK' /\ Others(c) /\ Sound(c)'
  <1>1. UNCHANGED <<idleReap, up, lease, subscribers, notifying, byDownstream, byUpstream,
                    proxy, sdk, pc>>
    BY DEF TrackRequest, managerVars, indexVars
  <1>2. /\ streams[c] \in 0 .. MaxStreams /\ conn[c].refs \in 0 .. MaxStreams
        /\ conn[c].refs <= streams[c] /\ streams[c] < MaxStreams /\ MaxStreams \in Nat
    BY ConstantsAssumption, Fields DEF TrackRequest, Conn, Sound, Tracked
  <1>3. streams[c] + 1 \in 0 .. MaxStreams /\ conn[c].refs + 1 \in 0 .. MaxStreams
    BY <1>2
  <1> DEFINE r == [known |-> TRUE, refs |-> conn[c].refs + 1, timer |-> "nil"]
  <1>4. r \in Conn
    BY <1>3 DEF Conn
  <1>5. r.known /\ r.refs = conn[c].refs + 1
    OBVIOUS
  <1>6. /\ streams' = [streams EXCEPT ![c] = streams[c] + 1]
        /\ conn' = [conn EXCEPT ![c] = r]
    BY DEF TrackRequest
  <1> HIDE DEF r
  <1>7. /\ streams' \in [Clients -> 0 .. MaxStreams] /\ conn' \in [Clients -> Conn]
        /\ streams'[c] = streams[c] + 1 /\ conn'[c] = r
        /\ \A d \in Clients \ {c} : streams'[d] = streams[d] /\ conn'[d] = conn[d]
    BY <1>3, <1>4, <1>6, Fields
  <1>8. TypeOK'
    BY <1>1, <1>7 DEF TypeOK
  <1>9. Others(c)
    BY <1>1, <1>7 DEF Others, Untouched
  <1>10. Sound(c)'
    <2>1. Tracked(c)'
      BY <1>2, <1>5, <1>7 DEF Tracked
    <2>2. Detached(c)' /\ Early(c)'
      BY <1>1 DEF Sound, Detached, Early
    <2>3. Indexed(c)' /\ Subscribed(c)'
      BY <1>1 DEF Sound, Indexed, Subscribed
    <2> QED
      BY <2>1, <2>2, <2>3 DEF Sound
  <1> QED
    BY <1>8, <1>9, <1>10

LEMMA ReleaseSteps ==
  ASSUME TypeOK, NEW c \in Clients, Sound(c), ReleaseConnection(c)
  PROVE  TypeOK' /\ Others(c) /\ Sound(c)'
  <1>1. UNCHANGED <<idleReap, up, lease, subscribers, notifying, byDownstream, byUpstream,
                    proxy, sdk, pc>>
    BY DEF ReleaseConnection, managerVars, indexVars
  <1>2. /\ streams[c] \in 0 .. MaxStreams /\ conn[c].refs \in 0 .. MaxStreams
        /\ conn[c].refs <= streams[c] /\ streams[c] > 0 /\ MaxStreams \in Nat
        /\ ~conn[c].known => conn[c].refs = 0
    BY ConstantsAssumption, Fields DEF ReleaseConnection, Conn, Sound, Tracked
  <1>3. streams[c] - 1 \in 0 .. MaxStreams /\ 0 \in 0 .. MaxStreams
    BY <1>2
  <1> DEFINE one == [conn[c] EXCEPT !.refs = conn[c].refs - 1]
             off == [conn[c] EXCEPT !.refs = 0, !.timer = "armed"]
  <1>4. /\ streams' = [streams EXCEPT ![c] = streams[c] - 1]
        /\ \/ ~conn[c].known /\ conn' = conn
           \/ conn[c].known /\ conn[c].refs > 1 /\ conn' = [conn EXCEPT ![c] = one]
           \/ conn[c].known /\ conn' = [conn EXCEPT ![c] = off]
    BY Fields DEF ReleaseConnection
  <1>5. conn[c].refs > 1 => conn[c].refs - 1 \in 0 .. MaxStreams
    BY <1>2
  <1>6. (conn[c].refs > 1 => one \in Conn) /\ off \in Conn
    <2>1. conn[c] \in Conn
      BY Fields
    <2>2. off \in Conn
      BY <2>1, <1>3, Zenon DEF Conn
    <2>3. ASSUME conn[c].refs > 1 PROVE one \in Conn
      <3>1. conn[c].refs - 1 \in 0 .. MaxStreams
        BY <1>5, <2>3
      <3> QED
        BY <2>1, <3>1, Zenon DEF Conn
    <2> QED
      BY <2>2, <2>3
  <1>7. /\ one.refs = conn[c].refs - 1 /\ one.known = conn[c].known
        /\ off.refs = 0 /\ off.known = conn[c].known
    BY Fields DEF Conn
  <1> HIDE DEF one, off
  <1>8. /\ streams' \in [Clients -> 0 .. MaxStreams] /\ streams'[c] = streams[c] - 1
        /\ \A d \in Clients \ {c} : streams'[d] = streams[d]
    BY <1>3, <1>4, Fields
  <1>9. /\ conn' \in [Clients -> Conn]
        /\ \A d \in Clients \ {c} : conn'[d] = conn[d]
        /\ \/ ~conn[c].known /\ conn'[c] = conn[c]
           \/ conn[c].known /\ conn[c].refs > 1 /\ conn'[c] = one
           \/ conn[c].known /\ conn'[c] = off
    BY <1>4, <1>6, Fields
  <1>10. TypeOK'
    BY <1>1, <1>8, <1>9 DEF TypeOK
  <1>11. Others(c)
    BY <1>1, <1>8, <1>9 DEF Others, Untouched
  <1>12. Sound(c)'
    <2>1. Tracked(c)'
      BY <1>2, <1>7, <1>8, <1>9 DEF Tracked
    <2>2. Detached(c)' /\ Early(c)'
      BY <1>1 DEF Sound, Detached, Early
    <2>3. Indexed(c)' /\ Subscribed(c)'
      BY <1>1 DEF Sound, Indexed, Subscribed
    <2> QED
      BY <2>1, <2>2, <2>3 DEF Sound
  <1> QED
    BY <1>10, <1>11, <1>12

LEMMA TrackerSteps ==
  ASSUME TypeOK, NEW c \in Clients, Sound(c),
         HandleDelete(c) \/ GraceExpires(c) \/ ReapForgets(c)
  PROVE  TypeOK' /\ Others(c) /\ Sound(c)'
  <1>1. /\ pc' \in [Clients -> Threads] /\ \A d \in Clients \ {c} : pc'[d] = pc[d]
        /\ pc'[c].create = pc[c].create /\ pc'[c].init = pc[c].init
        /\ pc'[c].call = pc[c].call /\ pc'[c].expiry = pc[c].expiry
        /\ pc'[c].delete = pc[c].delete \/ pc[c].delete # "none"
    BY DeleteMoves, ReapMoves DEF HandleDelete, GraceExpires, ReapForgets, At
  <1>2. UNCHANGED <<idleReap, up, lease, subscribers, notifying, byDownstream, byUpstream,
                    proxy, sdk, streams>>
    BY DEF HandleDelete, GraceExpires, ReapForgets, managerVars, indexVars
  <1>3. 0 \in 0 .. MaxStreams /\ streams[c] \in 0 .. MaxStreams /\ MaxStreams \in Nat
    BY ConstantsAssumption, Fields
  <1> DEFINE f == [conn[c] EXCEPT !.timer = "fired"]
  <1>4. NoConn \in Conn /\ NoConn.refs = 0 /\ ~NoConn.known
    BY <1>3 DEF NoConn, Conn
  <1>5. f \in Conn
    BY Fields, Zenon DEF Conn
  <1>6. f.refs = conn[c].refs /\ f.known = conn[c].known
    BY Fields DEF Conn
  <1>7. conn' = [conn EXCEPT ![c] = NoConn] \/ conn' = [conn EXCEPT ![c] = f]
    BY Fields DEF HandleDelete, GraceExpires, ReapForgets
  <1> HIDE DEF f
  <1>8. /\ conn' \in [Clients -> Conn] /\ conn'[c] \in {NoConn, f}
        /\ \A d \in Clients \ {c} : conn'[d] = conn[d]
    BY <1>4, <1>5, <1>7, Fields
  <1>9. TypeOK'
    BY <1>1, <1>2, <1>8 DEF TypeOK
  <1>10. Others(c)
    BY <1>1, <1>2, <1>8 DEF Others, Untouched
  <1>11. Sound(c)'
    <2>1. Tracked(c)'
      BY <1>2, <1>3, <1>4, <1>6, <1>8 DEF Sound, Tracked
    <2>2. Detached(c)' /\ Early(c)'
      BY <1>1, <1>2 DEF Sound, Detached, Early
    <2>3. Indexed(c)' /\ Subscribed(c)'
      BY <1>1, <1>2 DEF Sound, Indexed, Subscribed
    <2> QED
      BY <2>1, <2>2, <2>3 DEF Sound
  <1> QED
    BY <1>9, <1>10, <1>11

---------------------------------------------------------------------------
(* The shared process.                                                     *)
LEMMA RespawnSteps ==
  ASSUME TypeOK, NEW c \in Clients, Sound(c), OnRespawn(c)
  PROVE  TypeOK' /\ Others(c) /\ Sound(c)'
  <1>1. /\ UNCHANGED <<idleReap, up, lease, subscribers, byDownstream, byUpstream, sdk,
                       streams, conn, pc>>
        /\ notifying' = notifying \ {c}
    BY DEF OnRespawn, indexVars, trackerVars
  <1> DEFINE b == proxy[c].ds \/ ~proxy[c].closed
             r == [proxy[c] EXCEPT !.ds = b]
  <1>2. proxy \in [Clients -> Proxy] /\ proxy[c] \in Proxy /\ b \in BOOLEAN
    BY Fields
  <1>3. proxy' = [proxy EXCEPT ![c] = r]
    BY <1>2 DEF OnRespawn
  <1>4. r \in Proxy
    BY <1>2, Zenon DEF Proxy
  <1>5. /\ r.closed = proxy[c].closed /\ r.once = proxy[c].once
        /\ r.counted = proxy[c].counted /\ r.upstream = proxy[c].upstream
        /\ proxy[c].closed /\ ~proxy[c].ds => ~r.ds
    BY <1>2 DEF Proxy
  <1> HIDE DEF r, b
  <1>6. /\ proxy' \in [Clients -> Proxy] /\ proxy'[c] = r
        /\ \A d \in Clients \ {c} : proxy'[d] = proxy[d]
    BY <1>2, <1>3, <1>4
  <1>7. TypeOK'
    BY <1>1, <1>6 DEF TypeOK
  <1>8. Others(c)
    BY <1>1, <1>6 DEF Others, Untouched
  <1>9. Sound(c)'
    <2>1. Detached(c)' /\ Early(c)'
      BY <1>1, <1>5, <1>6 DEF Sound, Detached, Early
    <2>2. Indexed(c)' /\ Subscribed(c)' /\ Tracked(c)'
      BY <1>1, <1>5, <1>6 DEF Sound, Indexed, Subscribed, Tracked
    <2> QED
      BY <2>1, <2>2 DEF Sound
  <1> QED
    BY <1>7, <1>8, <1>9

LEMMA ProcessSteps ==
  ASSUME TypeOK, Dies \/ Starts \/ UNCHANGED vars
  PROVE  TypeOK' /\ \A d \in Clients : Untouched(d)
  <1>1. /\ UNCHANGED <<idleReap, lease, subscribers, byDownstream, byUpstream, proxy, sdk,
                       streams, conn, pc>>
        /\ up' \in {up, TRUE, FALSE} /\ notifying' \in {notifying, subscribers}
    BY DEF Dies, Starts, vars, managerVars, indexVars, trackerVars
  <1>2. up' \in BOOLEAN
    BY <1>1 DEF TypeOK
  <1> QED
    BY <1>1, <1>2 DEF TypeOK, Untouched

---------------------------------------------------------------------------
LEMMA InitSound ==
  Init => IInv
  <1> SUFFICES ASSUME Init PROVE IInv
    OBVIOUS
  <1>1. 0 \in 0 .. MaxStreams
    BY ConstantsAssumption
  <1>2. NoLease \in Lease /\ NoConn \in Conn
    BY <1>1 DEF NoLease, Lease, NoConn, Conn
  <1>3. TypeOK
    BY <1>1, <1>2 DEF Init, TypeOK, Proxy, Threads
  <1>4. ASSUME NEW c \in Clients PROVE Sound(c)
    <2>1. Detached(c) /\ Early(c)
      BY DEF Init, Detached, Early, NoLease
    <2>2. Indexed(c) /\ Subscribed(c) /\ Tracked(c)
      BY DEF Init, Indexed, Subscribed, Tracked, NoConn
    <2> QED
      BY <2>1, <2>2 DEF Sound
  <1> QED
    BY <1>3, <1>4 DEF IInv

(* What any step of one client does.                                       *)
LEMMA ClientSteps ==
  ASSUME TypeOK, NEW c \in Clients, Sound(c),
         \/ ClientStep(c) \/ CreateStep(c) \/ PublishStep(c) \/ ServeStep(c)
         \/ DeleteStep(c) \/ ExpiryStep(c) \/ ReapStep(c) \/ SdkCloses(c) \/ OnRespawn(c)
  PROVE  TypeOK' /\ Others(c) /\ Sound(c)'
  <1>1. CASE ClientStep(c)
    BY <1>1, OpenSteps, InitializedSteps, CallSteps, SdkSteps, TrackRequestSteps, ReleaseSteps
       DEF ClientStep
  <1>2. CASE CreateStep(c)
    <2>1. CASE ListFails(c)
      <3>1. CloseDownstream(c)
        BY <2>1 DEF ListFails
      <3> QED
        BY <2>1, <3>1, ClosingSteps
    <2> QED
      BY <1>2, <2>1, OpenSteps, AttachSteps, SubscribeSteps DEF CreateStep
  <1>3. CASE PublishStep(c)
    <2>1. CASE CloseDead(c)
      <3>1. CloseDownstream(c)
        BY <2>1 DEF CloseDead
      <3> QED
        BY <2>1, <3>1, ClosingSteps
    <2> QED
      BY <1>3, <2>1, CreditSteps, PublishSteps DEF PublishStep
  <1>4. CASE ServeStep(c)
    BY <1>4, CallSteps DEF ServeStep
  <1>5. CASE DeleteStep(c)
    <2>1. CASE DeleteCloses(c)
      <3>1. CloseDownstream(c) \/ UNCHANGED <<managerVars, indexVars, proxy, sdk>>
        BY <2>1 DEF DeleteCloses
      <3> QED
        BY <2>1, <3>1, ClosingSteps, NothingToClose
    <2> QED
      BY <1>5, <2>1, TrackerSteps DEF DeleteStep
  <1>6. CASE ExpiryStep(c)
    <2>1. CASE ExpiryCloses(c)
      <3>1. CloseDownstream(c)
        BY <2>1 DEF ExpiryCloses
      <3> QED
        BY <2>1, <3>1, ClosingSteps
    <2> QED
      BY <1>6, <2>1, ExpirySteps DEF ExpiryStep
  <1>7. CASE ReapStep(c)
    <2>1. CASE ReapCloses(c)
      <3>1. CloseDownstream(c) \/ UNCHANGED <<managerVars, indexVars, proxy, sdk>>
        BY <2>1 DEF ReapCloses
      <3> QED
        BY <2>1, <3>1, ClosingSteps, NothingToClose
    <2> QED
      BY <1>7, <2>1, TrackerSteps DEF ReapStep
  <1>8. CASE SdkCloses(c)
    BY <1>8, SdkSteps
  <1>9. CASE OnRespawn(c)
    BY <1>9, RespawnSteps
  <1> QED
    BY <1>1, <1>2, <1>3, <1>4, <1>5, <1>6, <1>7, <1>8, <1>9

LEMMA StepSound ==
  IInv /\ [Next]_vars => IInv'
  <1> SUFFICES ASSUME IInv, [Next]_vars PROVE IInv'
    OBVIOUS
  <1>1. TypeOK /\ \A d \in Clients : Sound(d)
    BY DEF IInv
  <1>2. CASE Dies \/ Starts \/ UNCHANGED vars
    <2>1. TypeOK' /\ \A d \in Clients : Untouched(d)
      BY <1>1, <1>2, ProcessSteps
    <2> QED
      BY <1>1, <2>1, UntouchedSound DEF IInv
  <1>3. ASSUME NEW c \in Clients,
               \/ ClientStep(c) \/ CreateStep(c) \/ PublishStep(c) \/ ServeStep(c)
               \/ DeleteStep(c) \/ ExpiryStep(c) \/ ReapStep(c) \/ SdkCloses(c)
               \/ OnRespawn(c)
        PROVE  IInv'
    <2>1. TypeOK' /\ Others(c) /\ Sound(c)'
      BY <1>1, <1>3, ClientSteps
    <2>2. ASSUME NEW d \in Clients \ {c} PROVE Sound(d)'
      BY <1>1, <2>1, UntouchedSound DEF Others
    <2> QED
      BY <2>1, <2>2 DEF IInv
  <1> QED
    BY <1>2, <1>3 DEF Next

(* Every reachable state satisfies the inductive invariant.                *)
THEOREM SoundHolds == Spec => []IInv
  BY InitSound, StepSound, PTL DEF Spec

(* Every variable keeps its type; a count of the tracker stays within the  *)
(* streams there can be.                                                   *)
THEOREM TypesHold == Spec => []TypeOK
  <1>1. IInv => TypeOK
    BY DEF IInv
  <1> QED
    BY <1>1, SoundHolds, PTL

(* What a close settles stays settled, for any number of clients: nothing  *)
(* leads to a closed session whose handlers have returned, it holds no     *)
(* credit, no OnRespawn is left for it once it had initialized, and it     *)
(* never gets a downstream pointer again, whichever of the expiry, the     *)
(* DELETE, the reap of a gone client and the publication closed it.        *)
THEOREM ClosedHolds == Spec => []ClosedIsFinal
  <1>1. IInv => ClosedStaysDetached
    BY DEF IInv, Sound, Detached, ClosedStaysDetached
  <1>2. IInv => ClosedIsForgotten
    <2> SUFFICES ASSUME IInv, NEW c \in Clients, proxy[c].closed,
                        pc[c].init \in {"none", "done"}
                 PROVE  /\ c \notin byUpstream \cup byDownstream
                        /\ ~proxy[c].counted
                        /\ pc[c].init = "done" => c \notin subscribers
      BY DEF ClosedIsForgotten
    <2>1. Detached(c) /\ Indexed(c) /\ Subscribed(c)
      BY DEF IInv, Sound
    <2> QED
      BY <2>1 DEF Detached, Indexed, Subscribed
  <1>3. IInv => ClosedIsFinal
    BY <1>1, <1>2 DEF ClosedIsFinal
  <1> QED
    BY <1>3, SoundHolds, PTL
=============================================================================
