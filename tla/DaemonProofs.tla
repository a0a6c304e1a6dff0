---------------------------- MODULE DaemonProofs ----------------------------
(***************************************************************************)
(* Proofs about the servers of the daemon: ServerLifecycle, for any set of *)
(* admin goroutines, any number of objects and any capacity of the queue,  *)
(* and ManagedBackend, the supervised process behind a server of transport *)
(* managed-http, for any finite set of requests, any restart limit, policy *)
(* and number of recycles.                                                 *)
(***************************************************************************)
EXTENDS ServerLifecycle, ManagedBackend, FiniteSetTheorems, TLAPS

Setup    == {"check", "look", "claim", "bind"}
Working  == Setup \cup {"work"}
Starting == {"start", "guard", "unblock", "spawn", "startFailed", "publish", "fireStarted"}
Stopping == {"stop", "halt", "stopFailed", "halted", "fireStopped"}
Ending   == {"unlisten", "stopAll", "close", "drain"}
Pcs      == {"idle", "list", "remove", "add", "unwork", "teardown"}
              \cup Working \cup Starting \cup Stopping \cup Ending
Kinds == {"none", "boot", "restart", "remove", "add", "drop", "update", "shutdown", "event"}
Act   == [pc: Pcs, kind: Kinds, obj: 0 .. MaxAdds]

(* A Start or a Stop has taken effect and has not sent its event yet.      *)
Taking == {"spawn", "startFailed", "publish", "fireStarted",
           "halt", "stopFailed", "halted", "fireStopped"}

At(pcs) == \E a \in Operators : act[a].pc \in pcs

Typed == TypeOK /\ act \in [Actors -> Act]

Others(a) == act' \in [Actors -> Act] /\ \A b \in Actors \ {a} : act'[b] = act[b]

(* The actors, and what is known of the fields from their types.           *)
LEMMA Actor ==
  /\ Operators \subseteq Actors /\ Handler \in Actors /\ Handler \notin Operators
  /\ Signals \in Operators /\ Main \in Operators /\ Admins \subseteq Operators
  /\ Signals # Main /\ Signals \notin Admins /\ Main \notin Admins
  /\ \A a \in Operators : a \in Admins \/ a = Main \/ a = Signals
  BY ConstantsAssumption DEF Operators, Actors

LEMMA Alphabet ==
  /\ Idle \in Act
  /\ \A r \in Act, pc \in Pcs : /\ [r EXCEPT !.pc = pc] \in Act
                                /\ [r EXCEPT !.pc = pc].pc = pc
                                /\ [r EXCEPT !.pc = pc].kind = r.kind
                                /\ [r EXCEPT !.pc = pc].obj = r.obj
  /\ Idle.pc = "idle" /\ Idle.kind = "none" /\ Idle.obj = 0
  BY ConstantsAssumption DEF Idle, Act, Pcs, Kinds

States == {"stopped", "starting", "running", "stopping", "failed"}
Srv    == [state: States, proc: BOOLEAN]

(* Object o gets the state s and the process p.                            *)
Becomes(o, s, p) ==
  /\ srv' \in [Objs -> Srv] /\ srv'[o].state = s /\ srv'[o].proc = p
  /\ \A n \in Objs \ {o} : srv'[n] = srv[n]

LEMMA Ranges ==
  ASSUME Typed
  PROVE  /\ MaxAdds \in Nat /\ added \in 1 .. MaxAdds /\ added \in Nat /\ Objs = 1 .. MaxAdds
         /\ srv \in [Objs -> Srv] /\ reg \in 0 .. added /\ reg \in 0 .. MaxAdds
         /\ reg # 0 => reg \in 1 .. added /\ reg \in Objs /\ State(reg) \in States
         /\ service \in 0 .. added /\ (service # 0 => service \in Objs)
  BY ConstantsAssumption DEF Typed, TypeOK, Objs, Srv, States, State

(* What the assignments of the actions do to a server and to an actor.     *)
LEMMA StateMoves ==
  ASSUME Typed, NEW o \in Objs, NEW s \in States, SetState(o, s)
  PROVE  Becomes(o, s, srv[o].proc)
  BY Ranges DEF SetState, Becomes, Srv

LEMMA ServerMoves ==
  ASSUME Typed, NEW o \in Objs, NEW s \in States, NEW p \in BOOLEAN,
         srv' = [srv EXCEPT ![o] = [state |-> s, proc |-> p]]
  PROVE  Becomes(o, s, p)
  BY Ranges DEF Becomes, Srv

LEMMA GotoMoves ==
  ASSUME Typed, NEW a \in Actors, NEW pc \in Pcs, Goto(a, pc)
  PROVE  Others(a) /\ act'[a].pc = pc /\ act'[a].kind = act[a].kind /\ act'[a].obj = act[a].obj
  BY Alphabet DEF Typed, Goto, Others

LEMMA GotoAt ==
  ASSUME Typed, NEW a \in Actors, NEW pc \in Pcs, NEW o \in 0 .. MaxAdds,
         act' = [act EXCEPT ![a].pc = pc, ![a].obj = o]
  PROVE  Others(a) /\ act'[a].pc = pc /\ act'[a].kind = act[a].kind /\ act'[a].obj = o
  BY DEF Typed, Others, Act

LEMMA BeginMoves ==
  ASSUME Typed, NEW a \in Actors, NEW pc \in Pcs, NEW kind \in Kinds, Begin(a, kind, pc)
  PROVE  Others(a) /\ act'[a].pc = pc /\ act'[a].kind = kind /\ act'[a].obj = reg
  BY Ranges DEF Begin, Typed, Others, Act

LEMMA IdleMoves ==
  ASSUME Typed, NEW a \in Actors, act' = [act EXCEPT ![a] = Idle]
  PROVE  Others(a) /\ act'[a] = Idle /\ act'[a].pc = "idle" /\ act'[a].kind = "none"
  BY Alphabet DEF Typed, Others

(* What follows a Start, and what follows a Stop.                          *)
LEMMA StartReturned ==
  ASSUME Typed, NEW a \in Operators, NEW ok \in BOOLEAN, StartReturns(a, ok)
  PROVE  /\ Others(a)
         /\ \/ /\ act[a].kind = "boot" /\ act'[a].pc = "list"
               /\ act'[a].kind = "boot" /\ act'[a].obj = act[a].obj
            \/ /\ act[a].kind = "add" /\ ~ok /\ act'[a].pc = "remove"
               /\ act'[a].kind = "add"
            \/ /\ act[a].kind # "boot" /\ act'[a].pc = "idle" /\ act'[a].kind = "none"
  BY Actor, GotoMoves, IdleMoves DEF StartReturns, Pcs

LEMMA StopReturned ==
  ASSUME Typed, NEW a \in Operators, NEW ok \in BOOLEAN, StopReturns(a, ok)
  PROVE  /\ Others(a)
         /\ \/ /\ act[a].kind = "shutdown" /\ act'[a].pc = "close" /\ act'[a].kind = "shutdown"
            \/ /\ act[a].kind \in {"drop", "remove", "update"} /\ act'[a].pc = "remove"
               /\ act'[a].kind = act[a].kind
            \/ /\ act[a].kind = "restart" /\ act'[a].pc = "start" /\ act'[a].kind = "restart"
            \/ /\ act[a].kind # "shutdown" /\ act'[a].pc = "idle" /\ act'[a].kind = "none"
  BY Actor, GotoMoves, IdleMoves DEF StopReturns, Pcs, Starting, Ending

(* The first lock of a Start and of a Stop: return, or go on.              *)
LEMMA StartLocked ==
  ASSUME Typed, NEW a \in Operators, StartLock(a)
  PROVE  /\ Others(a)
         /\ \/ /\ UNCHANGED <<daemon, regVars, queue, closed, bindVars, raced>>
               /\ \/ /\ act'[a].pc = "guard" /\ act'[a].kind = act[a].kind
                     /\ act'[a].obj = act[a].obj
                  \/ /\ act'[a].pc = "list" /\ act[a].kind = "boot"
                     /\ act'[a].kind = "boot" /\ act'[a].obj = act[a].obj
                  \/ act'[a].pc = "remove" /\ act[a].kind = "add" /\ act'[a].kind = "add"
                  \/ act'[a].pc = "idle" /\ act[a].kind # "boot" /\ act'[a].kind = "none"
            \/ /\ act'[a].pc = "spawn" /\ act'[a].kind = act[a].kind /\ act'[a].obj = reg
               /\ reg # 0 /\ State(reg) \notin {"running", "starting"}
               /\ SetState(reg, "starting") /\ blocked' = FALSE
               /\ raced' = (raced \/ Crosses(a) \/ daemon # "running")
               /\ UNCHANGED <<daemon, reg, added, service, stopFailed, queue, closed, bindVars>>
  <1>1. CASE reg = 0
    BY <1>1, StartReturned DEF StartLock, regVars
  <1>2. CASE reg # 0 /\ Up(reg)
    BY <1>2, StartReturned DEF StartLock, regVars
  <1>3. CASE reg # 0 /\ ~Up(reg) /\ blocked /\ act[a].pc = "start"
    BY <1>3, Actor, GotoMoves DEF StartLock, regVars, Pcs, Starting
  <1>4. CASE reg # 0 /\ ~Up(reg) /\ ~(blocked /\ act[a].pc = "start")
    <2>1. act' = [act EXCEPT ![a].pc = "spawn", ![a].obj = reg] /\ SetState(reg, "starting")
      BY <1>4 DEF StartLock
    <2>2. /\ Others(a) /\ act'[a].pc = "spawn" /\ act'[a].kind = act[a].kind
          /\ act'[a].obj = reg
      <3>1. /\ Typed /\ a \in Actors /\ reg \in 0 .. MaxAdds
            /\ "spawn" \in Pcs /\ "halt" \in Pcs
        BY Actor, Ranges DEF Pcs, Starting, Stopping
      <3>2. QED
        BY <2>1, <3>1, GotoAt
    <2>3. QED
      BY <1>4, <2>1, <2>2 DEF StartLock, Up
  <1>5. QED
    BY <1>1, <1>2, <1>3, <1>4

LEMMA StopLocked ==
  ASSUME Typed, NEW a \in Operators, StopLock(a)
  PROVE  /\ Others(a)
         /\ UNCHANGED <<daemon, reg, added, blocked, service, stopFailed, queue, closed, bindVars>>
         /\ \/ /\ srv' = srv /\ raced' = raced /\ (reg = 0 \/ State(reg) = "stopped")
               /\ \/ act'[a].pc = "close" /\ act[a].kind = "shutdown" /\ act'[a].kind = "shutdown"
                  \/ /\ act'[a].pc = "remove" /\ act[a].kind \in {"drop", "remove", "update"}
                     /\ act'[a].kind = act[a].kind
                  \/ act'[a].pc = "start" /\ act[a].kind = "restart" /\ act'[a].kind = "restart"
                  \/ act'[a].pc = "idle" /\ act[a].kind # "shutdown" /\ act'[a].kind = "none"
            \/ /\ act'[a].pc = "halt" /\ act'[a].kind = act[a].kind /\ act'[a].obj = reg
               /\ reg # 0 /\ State(reg) # "stopped" /\ SetState(reg, "stopping")
               /\ raced' = (raced \/ Crosses(a))
  <1>1. CASE reg = 0 \/ State(reg) = "stopped"
    BY <1>1, StopReturned DEF StopLock
  <1>2. CASE reg # 0 /\ State(reg) # "stopped"
    <2>1. act' = [act EXCEPT ![a].pc = "halt", ![a].obj = reg] /\ SetState(reg, "stopping")
      BY <1>2 DEF StopLock
    <2>2. /\ Others(a) /\ act'[a].pc = "halt" /\ act'[a].kind = act[a].kind
          /\ act'[a].obj = reg
      <3>1. /\ Typed /\ a \in Actors /\ reg \in 0 .. MaxAdds
            /\ "spawn" \in Pcs /\ "halt" \in Pcs
        BY Actor, Ranges DEF Pcs, Starting, Stopping
      <3>2. QED
        BY <2>1, <3>1, GotoAt
    <2>3. QED
      BY <1>2, <2>1, <2>2 DEF StopLock
  <1>3. QED
    BY <1>1, <1>2

---------------------------------------------------------------------------
(* fireEvent.                                                              *)
Event == [type: {"started", "stopped"}, obj: Objs]

LEMMA Appended ==
  ASSUME Typed, NEW e \in Event, queue' = Append(queue, e)
  PROVE  /\ queue \in Seq(Event) /\ queue' \in Seq(Event) /\ queue' # <<>>
         /\ Len(queue) \in Nat /\ Len(queue') = Len(queue) + 1
         /\ queue'[Len(queue')] = e
         /\ \A i \in 1 .. Len(queue) : queue'[i] = queue[i] /\ queue[i] \in Event
         /\ queue = <<>> <=> Len(queue) = 0
  <1>1. queue \in Seq(Event)
    BY DEF Typed, TypeOK, Event
  <1>2. QED
    BY <1>1

---------------------------------------------------------------------------
(* The types, also when operations overlap.                                *)

(* An operation that will add an object has room for it.                   *)
Room(a) ==
  /\ act[a].pc = "add" \/ (act[a].kind = "update" /\ act[a].pc \in {"remove"} \cup Stopping)
       => a = Signals /\ added < MaxAdds
  /\ act[a].pc \in {"unlisten", "stopAll"} => act[a].kind # "update"

(* An actor, an event and what an actor works on name objects that exist.  *)
Named == /\ \A a \in Actors : act[a].obj \in 0 .. added
         /\ \A a \in Operators : (act[a].pc \in Taking => act[a].obj # 0) /\ Room(a)
         /\ \A i \in 1 .. Len(queue) : queue[i].obj \in 1 .. added
         /\ act[Handler].pc # "idle" => act[Handler].obj \in 1 .. added

(* The invariant of the types, which needs no assumption on the operations *)
(* but that only the signal goroutine adds objects, while there is room.   *)
TInv == Typed /\ Named

(* A step of an operation that adds no object and sends no event.          *)
LEMMA OperationNames ==
  ASSUME TInv, NEW a \in Operators, Others(a), act'[a].obj \in 0 .. added,
         act'[a].pc \in Taking => act'[a].obj # 0,
         UNCHANGED <<added, queue, closed, bindVars>>,
         daemon' \in {"running", "stopping", "stopped"}, reg' \in 0 .. added,
         srv' \in [Objs -> Srv], blocked' \in BOOLEAN, stopFailed' \in BOOLEAN,
         service' \in 0 .. added, raced' \in BOOLEAN, Room(a)'
  PROVE  TInv'
  <1>1. Typed'
    BY Ranges DEF TInv, Typed, TypeOK, Others, bindVars, Srv, States
  <1>2. Named'
    <2>1. \A b \in Actors : act'[b].obj \in 0 .. added'
      BY DEF TInv, Named, Others
    <2>2. \A b \in Operators : (act'[b].pc \in Taking => act'[b].obj # 0) /\ Room(b)'
      BY Actor DEF TInv, Named, Others, Room
    <2>3. QED
      BY <2>1, <2>2, Actor DEF TInv, Named, Others
  <1>3. QED
    BY <1>1, <1>2 DEF TInv

(* The caller of a Start or a Stop goes on with its object or is done.     *)
LEMMA ReturnNames ==
  ASSUME TInv, NEW a \in Operators, NEW ok \in BOOLEAN,
         StartReturns(a, ok) \/ (StopReturns(a, ok) /\ act[a].pc \in Stopping)
  PROVE  Others(a) /\ act'[a].obj \in 0 .. added /\ act'[a].pc \notin Taking
         /\ (added' = added => Room(a)')
  <1>1. Typed /\ a \in Actors /\ added \in Nat /\ act[a].obj \in 0 .. added
    BY Actor, Ranges DEF TInv, Named
  <1>2. CASE StartReturns(a, ok)
    <2>1. /\ Others(a)
          /\ \/ act'[a].pc = "list" /\ act'[a].obj = act[a].obj
             \/ act[a].kind = "add" /\ act'[a].pc = "remove" /\ act'[a].obj = act[a].obj
                /\ act'[a].kind = "add"
             \/ act'[a].pc = "idle" /\ act'[a].obj = 0
      BY <1>1, <1>2, GotoMoves, IdleMoves, Alphabet DEF StartReturns, Pcs
    <2>2. QED
      BY <1>1, <2>1 DEF Taking, Room, Stopping
  <1>3. CASE StopReturns(a, ok) /\ act[a].pc \in Stopping
    <2>1. /\ Others(a)
          /\ \/ act'[a].pc \in {"close", "remove", "start"} /\ act'[a].obj = act[a].obj
                /\ act'[a].kind = act[a].kind
             \/ act'[a].pc = "idle" /\ act'[a].obj = 0
      BY <1>1, <1>3, GotoMoves, IdleMoves, Alphabet DEF StopReturns, Pcs, Starting, Ending
    <2>2. added' = added => Room(a)'
      <3>1. Room(a)
        BY DEF TInv, Named
      <3>2. QED
        BY <1>3, <2>1, <3>1 DEF Room, Stopping
    <2>3. QED
      BY <1>1, <2>1, <2>2 DEF Taking
  <1>4. QED
    BY <1>2, <1>3

(* What the invariant of the types says of one operation.                  *)
LEMMA Fields ==
  ASSUME TInv, NEW a \in Operators
  PROVE  /\ Typed /\ a \in Actors /\ act[a].obj \in 0 .. added /\ Room(a)
         /\ act[a].pc \in Taking => act[a].obj # 0 /\ act[a].obj \in Objs
         /\ daemon \in {"running", "stopping", "stopped"}
         /\ srv \in [Objs -> Srv] /\ reg \in 0 .. added /\ service \in 0 .. added
         /\ blocked \in BOOLEAN /\ stopFailed \in BOOLEAN /\ raced \in BOOLEAN
         /\ added \in Nat /\ (reg # 0 => reg \in Objs)
  BY Actor, Ranges DEF TInv, Named, Typed, TypeOK

LEMMA StartNames ==
  ASSUME TInv, NEW a \in Operators,
         StartLock(a) \/ StartGuard(a) \/ StartSpawn(a) \/ StartFailed(a) \/ StartPublish(a)
  PROVE  TInv'
  <1> USE DEF regVars
  <1>1. CASE StartLock(a)
    <2>0. UNCHANGED <<daemon, reg, added, service, stopFailed, queue, closed, bindVars>>
      BY <1>1 DEF StartLock
    <2>1. CASE reg = 0
      <3>1. StartReturns(a, FALSE) /\ UNCHANGED <<srv, blocked, raced>>
        BY <1>1, <2>1 DEF StartLock
      <3>2. QED
        BY <2>0, <3>1, ReturnNames, Fields, OperationNames
    <2>2. CASE reg # 0 /\ Up(reg)
      <3>1. StartReturns(a, TRUE) /\ UNCHANGED <<srv, blocked, raced>>
        BY <1>1, <2>2 DEF StartLock
      <3>2. QED
        BY <2>0, <3>1, ReturnNames, Fields, OperationNames
    <2>3. CASE reg # 0 /\ ~Up(reg) /\ blocked /\ act[a].pc = "start"
      <3>1. Goto(a, "guard") /\ UNCHANGED <<srv, blocked, raced>>
        BY <1>1, <2>3 DEF StartLock
      <3>2. Others(a) /\ act'[a].pc = "guard" /\ act'[a].obj = act[a].obj
        BY <3>1, GotoMoves, Fields DEF Pcs, Starting
      <3>3. act'[a].pc \notin Taking /\ Room(a)'
        BY <3>2 DEF Taking, Room, Stopping
      <3>4. QED
        BY <2>0, <3>1, <3>2, <3>3, Fields, OperationNames
    <2>4. CASE reg # 0 /\ ~Up(reg) /\ ~(blocked /\ act[a].pc = "start")
      <3>1. /\ blocked' = FALSE /\ SetState(reg, "starting") /\ raced' \in BOOLEAN
            /\ act' = [act EXCEPT ![a].pc = "spawn", ![a].obj = reg]
        BY <1>1, <2>4, Fields DEF StartLock
      <3>2. srv' \in [Objs -> Srv]
        BY <2>4, <3>1, StateMoves, Fields DEF Becomes, States
      <3>3. "spawn" \in Pcs /\ reg \in 0 .. MaxAdds
        BY Fields, Ranges DEF Pcs, Starting
      <3>4. Others(a) /\ act'[a].pc = "spawn" /\ act'[a].obj = reg
        BY <3>1, <3>3, GotoAt, Fields
      <3>5. Room(a)'
        BY <3>4 DEF Room, Stopping
      <3>6. QED
        BY <2>0, <2>4, <3>1, <3>2, <3>4, <3>5, Fields, OperationNames
    <2>5. QED
      BY <2>1, <2>2, <2>3, <2>4
  <1>2. CASE StartGuard(a)
    <2>1. CASE StartReturns(a, FALSE)
      BY <1>2, <2>1, ReturnNames, Fields, OperationNames DEF StartGuard
    <2>2. CASE Goto(a, "unblock")
      <3>1. Others(a) /\ act'[a].pc = "unblock" /\ act'[a].obj = act[a].obj
        BY <2>2, GotoMoves, Fields DEF Pcs, Starting
      <3>2. act'[a].pc \notin Taking /\ Room(a)'
        BY <3>1 DEF Taking, Room, Stopping
      <3>3. QED
        BY <1>2, <3>1, <3>2, Fields, OperationNames DEF StartGuard
    <2>3. QED
      BY <1>2, <2>1, <2>2 DEF StartGuard
  <1>3. CASE StartSpawn(a)
    <2>1. /\ act[a].pc = "spawn" /\ service' \in {service, act[a].obj}
          /\ UNCHANGED <<daemon, reg, added, srv, blocked, stopFailed, queue, closed, bindVars, raced>>
      BY <1>3 DEF StartSpawn
    <2>2. /\ Others(a) /\ act'[a].pc \in {"startFailed", "publish"} /\ act'[a].obj = act[a].obj
      BY <1>3, GotoMoves, Fields DEF StartSpawn, Pcs, Starting
    <2>3. Room(a)' /\ act[a].pc \in Taking
      BY <2>1, <2>2 DEF Taking, Room, Stopping
    <2>4. QED
      BY <2>1, <2>2, <2>3, Fields, OperationNames
  <1>4. CASE StartFailed(a)
    <2>1. srv' \in [Objs -> Srv]
      BY <1>4, StateMoves, Fields DEF StartFailed, Taking, Becomes, States
    <2>2. QED
      BY <1>4, <2>1, ReturnNames, OperationNames, Fields DEF StartFailed
  <1>5. CASE StartPublish(a)
    <2>1. srv' \in [Objs -> Srv]
      BY <1>5, ServerMoves, Fields, ConstantsAssumption
      DEF StartPublish, Taking, Becomes, States
    <2>2. /\ Others(a) /\ act'[a].pc = "fireStarted" /\ act'[a].obj = act[a].obj
      BY <1>5, GotoMoves, Fields DEF StartPublish, Pcs, Starting
    <2>3. Room(a)' /\ act[a].pc \in Taking
      BY <1>5, <2>2 DEF StartPublish, Taking, Room, Stopping
    <2>4. QED
      BY <1>5, <2>1, <2>2, <2>3, Fields, OperationNames DEF StartPublish
  <1>6. QED
    BY <1>1, <1>2, <1>3, <1>4, <1>5

LEMMA StopNames ==
  ASSUME TInv, NEW a \in Operators,
         StopLock(a) \/ StopHalt(a) \/ StopFailed(a) \/ StopPublish(a)
  PROVE  TInv'
  <1>0. act[a].pc \in Stopping
    BY DEF StopLock, StopHalt, StopFailed, StopPublish, Stopping
  <1>1. CASE StopLock(a)
    <2>0. UNCHANGED <<daemon, reg, added, blocked, service, stopFailed, queue, closed, bindVars>>
      BY <1>1 DEF StopLock
    <2>1. CASE reg = 0 \/ State(reg) = "stopped"
      <3>1. (StopReturns(a, FALSE) \/ StopReturns(a, TRUE)) /\ UNCHANGED <<srv, raced>>
        BY <1>1, <2>1 DEF StopLock
      <3>2. QED
        BY <1>0, <2>0, <3>1, ReturnNames, Fields, OperationNames
    <2>2. CASE reg # 0 /\ State(reg) # "stopped"
      <3>1. /\ SetState(reg, "stopping") /\ raced' \in BOOLEAN
            /\ act' = [act EXCEPT ![a].pc = "halt", ![a].obj = reg]
        BY <1>1, <2>2, Fields DEF StopLock
      <3>2. srv' \in [Objs -> Srv]
        BY <2>2, <3>1, StateMoves, Fields DEF Becomes, States
      <3>3. "halt" \in Pcs /\ reg \in 0 .. MaxAdds
        BY Fields, Ranges DEF Pcs, Stopping
      <3>4. Others(a) /\ act'[a].pc = "halt" /\ act'[a].obj = reg /\ act'[a].kind = act[a].kind
        BY <3>1, <3>3, GotoAt, Fields
      <3>5. Room(a)'
        BY <1>0, <2>0, <3>4, Fields DEF Room, Stopping
      <3>6. QED
        BY <2>0, <2>2, <3>1, <3>2, <3>4, <3>5, Fields, OperationNames
    <2>3. QED
      BY <2>1, <2>2
  <1>2. CASE StopHalt(a)
    <2>1. /\ act[a].pc = "halt" /\ service' \in {service, 0} /\ stopFailed' \in {stopFailed, TRUE}
          /\ UNCHANGED <<daemon, reg, added, srv, blocked, queue, closed, bindVars, raced>>
      BY <1>2 DEF StopHalt
    <2>2. /\ Others(a) /\ act'[a].pc \in {"halted", "stopFailed"} /\ act'[a].obj = act[a].obj
          /\ act'[a].kind = act[a].kind
      BY <1>2, GotoMoves, Fields DEF StopHalt, Pcs, Stopping
    <2>3. Room(a)' /\ act[a].pc \in Taking
      BY <2>1, <2>2, Fields DEF Taking, Room, Stopping
    <2>4. 0 \in 0 .. added
      BY Fields
    <2>5. QED
      BY <2>1, <2>2, <2>3, <2>4, Fields, OperationNames
  <1>3. CASE StopFailed(a)
    <2>1. srv' \in [Objs -> Srv]
      BY <1>3, StateMoves, Fields DEF StopFailed, Taking, Becomes, States
    <2>2. QED
      BY <1>0, <1>3, <2>1, ReturnNames, OperationNames, Fields DEF StopFailed
  <1>4. CASE StopPublish(a)
    <2>1. srv' \in [Objs -> Srv]
      BY <1>4, ServerMoves, Fields DEF StopPublish, Taking, Becomes, States
    <2>2. /\ Others(a) /\ act'[a].pc = "fireStopped" /\ act'[a].obj = act[a].obj
          /\ act'[a].kind = act[a].kind
      BY <1>4, GotoMoves, Fields DEF StopPublish, Pcs, Stopping
    <2>3. Room(a)' /\ act[a].pc \in Taking
      BY <1>4, <2>2, Fields DEF StopPublish, Taking, Room, Stopping
    <2>4. QED
      BY <1>4, <2>1, <2>2, <2>3, Fields, OperationNames DEF StopPublish
  <1>5. QED
    BY <1>1, <1>2, <1>3, <1>4

LEMMA FireNames ==
  ASSUME TInv, NEW a \in Operators, FireStarted(a) \/ FireStopped(a)
  PROVE  TInv'
  <1>1. /\ Others(a) /\ act'[a].obj \in 0 .. added /\ act'[a].pc \notin Taking /\ Room(a)'
        /\ act[a].obj \in 1 .. added
    <2>1. added' = added
      BY DEF FireStarted, FireStopped, Fire, regVars
    <2>2. act[a].pc \in Taking /\ (FireStopped(a) => act[a].pc \in Stopping)
      BY DEF FireStarted, FireStopped, Taking, Stopping
    <2>3. StartReturns(a, TRUE) \/ (StopReturns(a, TRUE) /\ act[a].pc \in Stopping)
      BY <2>2 DEF FireStarted, FireStopped
    <2>4. act[a].obj \in 1 .. added
      BY <2>2, Fields
    <2>5. QED
      BY <2>1, <2>3, <2>4, ReturnNames
  <1>2. PICK type \in {"started", "stopped"} : Fire(a, type)
    BY DEF FireStarted, FireStopped
  <1>3. UNCHANGED <<daemon, regVars, closed, bindVars, raced>>
    BY <1>2 DEF Fire
  <1>4. /\ Len(queue') <= QueueCap /\ queue' \in Seq(Event)
        /\ \A i \in 1 .. Len(queue') : queue'[i].obj \in 1 .. added
    <2> DEFINE e == [type |-> type, obj |-> act[a].obj]
    <2>1. e \in Event /\ e.obj \in 1 .. added
      BY <1>1, Fields, Ranges DEF Event
    <2>2. /\ queue \in Seq(Event) /\ Len(queue) <= QueueCap /\ QueueCap \in Nat
          /\ \A i \in 1 .. Len(queue) : queue[i].obj \in 1 .. added
      BY ConstantsAssumption DEF TInv, Named, Typed, TypeOK, Event
    <2>3. queue' = queue \/ (Len(queue) < QueueCap /\ queue' = Append(queue, e))
      BY <1>2 DEF Fire
    <2> HIDE DEF e
    <2>4. CASE queue' = Append(queue, e) /\ Len(queue) < QueueCap
      BY <2>1, <2>2, <2>4
    <2>5. QED
      BY <2>2, <2>3, <2>4
  <1>5. Typed'
    BY <1>1, <1>3, <1>4, Fields DEF TInv, Typed, TypeOK, Others, Event, regVars, bindVars
  <1>6. Named'
    BY <1>1, <1>3, <1>4, Actor DEF TInv, Named, Others, Room, regVars
  <1>7. QED
    BY <1>5, <1>6 DEF TInv

LEMMA RemoveNames ==
  ASSUME TInv, NEW a \in Operators, Remove(a)
  PROVE  TInv'
  <1>1. /\ reg' \in 0 .. added
        /\ UNCHANGED <<daemon, added, srv, blocked, service, stopFailed, queue, closed, bindVars, raced>>
    BY Fields DEF Remove
  <1>2. /\ Others(a) /\ act'[a].pc \in {"idle", "add"} /\ act'[a].obj \in {0, act[a].obj}
        /\ act'[a].pc = "add" => act[a].kind = "update"
    BY GotoMoves, IdleMoves, Alphabet, Fields DEF Remove, Pcs
  <1>3. act'[a].pc \notin Taking /\ Room(a)'
    BY <1>1, <1>2, Fields DEF Taking, Room, Remove, Stopping
  <1>4. QED
    BY <1>1, <1>2, <1>3, Fields, OperationNames

LEMMA AddNames ==
  ASSUME TInv, NEW a \in Operators, Add(a)
  PROVE  TInv'
  <1>1. /\ \/ UNCHANGED <<reg, added>>
           \/ reg' = added + 1 /\ added' = added + 1
        /\ UNCHANGED <<daemon, srv, blocked, service, stopFailed, queue, closed, bindVars, raced>>
    BY DEF Add
  <1>2. a = Signals /\ added < MaxAdds /\ MaxAdds \in Nat /\ added \in Nat
    BY Fields, Ranges DEF Room, Add
  <1>3. /\ Others(a) /\ act'[a].pc \in {"idle", "start"} /\ act'[a].obj \in {0, act[a].obj}
    BY GotoMoves, IdleMoves, Alphabet, Fields DEF Add, Pcs, Starting
  <1>4. /\ added' \in Objs /\ reg' \in 0 .. added' /\ added' >= added /\ added' \in Nat
    BY <1>1, <1>2, Fields, Ranges
  <1>5. Typed'
    BY <1>1, <1>2, <1>3, <1>4, Fields DEF TInv, Typed, TypeOK, Others, bindVars
  <1>6. Named'
    <2>1. \A b \in Actors : act'[b].obj \in 0 .. added'
      BY <1>2, <1>3, <1>4, Fields DEF TInv, Named, Others
    <2>2. \A b \in Operators : (act'[b].pc \in Taking => act'[b].obj # 0) /\ Room(b)'
      <3>1. act'[a].pc \notin Taking /\ Room(a)'
        BY <1>3 DEF Taking, Room, Stopping
      <3>2. ASSUME NEW b \in Operators \ {a}
            PROVE  (act'[b].pc \in Taking => act'[b].obj # 0) /\ Room(b)'
        <4>1. act'[b] = act[b] /\ Room(b) /\ (act[b].pc \in Taking => act[b].obj # 0)
          BY <1>3, Fields, Actor DEF Others, TInv, Named
        <4>2. QED
          BY <1>2, <4>1 DEF Room
      <3>3. QED
        BY <3>1, <3>2
    <2>3. \A i \in 1 .. Len(queue') : queue'[i].obj \in 1 .. added'
      BY <1>1, <1>2, <1>4 DEF TInv, Named
    <2>4. act'[Handler].pc # "idle" => act'[Handler].obj \in 1 .. added'
      BY <1>2, <1>3, <1>4, Actor DEF TInv, Named, Others
    <2>5. QED
      BY <2>1, <2>2, <2>3, <2>4 DEF Named
  <1>7. QED
    BY <1>5, <1>6 DEF TInv

LEMMA BeginNames ==
  ASSUME TInv, NEW a \in Operators,
         \/ a \in Admins /\ (ToolRestart(a) \/ ToolRemove(a))
         \/ a = Signals /\ (Reload \/ Shutdown)
  PROVE  TInv'
  <1>1. /\ UNCHANGED <<regVars, queue, closed, bindVars, raced>>
        /\ daemon' \in {daemon, "stopping"}
    BY DEF ToolRestart, ToolRemove, Reload, Shutdown, Begins
  <1>2. \/ \E kind \in {"restart", "remove"}, pc \in {"stop", "remove"} : Begin(a, kind, pc)
        \/ \E pc \in {"stop", "unlisten"}, kind \in {"drop", "shutdown"} : Begin(a, kind, pc)
        \/ a = Signals /\ added < MaxAdds
            /\ \E pc \in {"add", "stop"}, kind \in {"add", "update"} : Begin(a, kind, pc)
    BY DEF ToolRestart, ToolRemove, Reload, Shutdown
  <1>3. PICK kind \in Kinds, pc \in {"stop", "remove", "unlisten", "add"} :
             /\ Begin(a, kind, pc)
             /\ pc = "add" \/ kind = "update" => a = Signals /\ added < MaxAdds
             /\ pc = "unlisten" => kind # "update"
    BY <1>2 DEF Kinds
  <1>4. Others(a) /\ act'[a].pc = pc /\ act'[a].kind = kind /\ act'[a].obj = reg
    BY <1>3, BeginMoves, Fields DEF Pcs, Stopping, Ending
  <1>5. act'[a].pc \notin Taking /\ Room(a)'
    BY <1>1, <1>3, <1>4 DEF Taking, Room, regVars
  <1>6. QED
    BY <1>1, <1>4, <1>5, Fields, OperationNames DEF regVars

LEMMA DeliverNames ==
  ASSUME TInv, Deliver
  PROVE  TInv'
  <1>1. /\ queue # <<>> /\ queue' = Tail(queue)
        /\ UNCHANGED <<daemon, regVars, closed, bindVars, raced>>
    BY DEF Deliver
  <1>2. /\ queue \in Seq(Event) /\ Len(queue) <= QueueCap /\ QueueCap \in Nat
        /\ \A i \in 1 .. Len(queue) : queue[i].obj \in 1 .. added
    BY ConstantsAssumption DEF TInv, Named, Typed, TypeOK, Event
  <1>3. /\ queue' \in Seq(Event) /\ Len(queue') <= QueueCap
        /\ \A i \in 1 .. Len(queue') : queue'[i].obj \in 1 .. added
        /\ Head(queue).obj \in 1 .. added
    BY <1>1, <1>2
  <1>4. /\ Others(Handler) /\ act'[Handler].obj = Head(queue).obj
    <2> DEFINE h == [pc |-> IF Head(queue).type = "started" THEN "check" ELSE "unwork",
                     kind |-> "event", obj |-> Head(queue).obj]
    <2>1. act' = [act EXCEPT ![Handler] = h]
      BY DEF Deliver
    <2>2. h \in Act /\ h.obj = Head(queue).obj
      BY <1>3, Ranges DEF Act, Pcs, Kinds, Working, Setup, TInv
    <2> HIDE DEF h
    <2>3. QED
      BY <2>1, <2>2, Actor DEF TInv, Typed, Others
  <1>5. Typed'
    BY <1>1, <1>3, <1>4 DEF TInv, Typed, TypeOK, Others, Event, regVars, bindVars
  <1>6. Named'
    <2>1. added' = added /\ added \in Nat
      BY <1>1, Ranges DEF TInv, regVars
    <2>2. \A b \in Operators : act'[b] = act[b]
      BY <1>4, Actor DEF Others
    <2>3. \A b \in Actors : act'[b].obj \in 0 .. added'
      BY <1>3, <1>4, <2>1 DEF TInv, Named, Others
    <2>4. \A b \in Operators : (act'[b].pc \in Taking => act'[b].obj # 0) /\ Room(b)'
      BY <2>1, <2>2 DEF TInv, Named, Room
    <2>5. QED
      BY <1>3, <1>4, <2>1, <2>3, <2>4 DEF Named
  <1>7. QED
    BY <1>5, <1>6 DEF TInv

(* A step of a setup, of the handler or of the shutdown.                   *)
LEMMA BindingNames ==
  ASSUME TInv, NEW a \in Actors, Others(a), act'[a].obj \in {0, act[a].obj},
         act'[a].pc \notin Taking \cup {"add", "remove", "unlisten"},
         act'[a].pc \in Stopping \cup {"stopAll"} => act'[a].kind # "update",
         a = Handler => act'[a].pc = "idle" \/ (act'[a].obj = act[a].obj /\ act[a].pc # "idle"),
         daemon' \in {"running", "stopping", "stopped"}, UNCHANGED <<regVars, queue, raced>>,
         closed' \in BOOLEAN, inProgress' \in BOOLEAN,
         listener' \in {0, listener, act[a].obj}, worker' \in {0, worker, act[a].obj}
  PROVE  TInv'
  <1>1. act[a].obj \in 0 .. added /\ 0 \in 0 .. added /\ added \in Nat
    BY Ranges DEF TInv, Named
  <1>2. Typed'
    BY <1>1 DEF TInv, Typed, TypeOK, Others, regVars
  <1>3. Named'
    <2>1. \A b \in Actors : act'[b].obj \in 0 .. added'
      BY <1>1 DEF TInv, Named, Others, regVars
    <2>2. \A b \in Operators : (act'[b].pc \in Taking => act'[b].obj # 0) /\ Room(b)'
      BY Actor DEF TInv, Named, Others, regVars, Room
    <2>3. QED
      BY <2>1, <2>2, Actor DEF TInv, Named, Others, regVars
  <1>4. QED
    BY <1>2, <1>3 DEF TInv

LEMMA SetupNames ==
  ASSUME TInv, NEW a \in {Main, Handler},
         SetupCheck(a) \/ SetupLook(a) \/ SetupClaim(a) \/ AddStreamable(a)
  PROVE  TInv'
  <1>1. /\ UNCHANGED <<daemon, regVars, queue, closed, worker, raced>>
        /\ inProgress' \in {inProgress, TRUE, FALSE} /\ listener' \in {0, listener, act[a].obj}
        /\ act[a].pc # "idle"
    BY DEF SetupCheck, SetupLook, SetupClaim, AddStreamable, bindVars
  <1>2. \/ SetupReturns(a) \/ \E pc \in {"look", "claim", "bind"} : Goto(a, pc)
    BY DEF SetupCheck, SetupLook, SetupClaim, AddStreamable
  <1>3. /\ Others(a) /\ act'[a].obj \in {0, act[a].obj}
        /\ act'[a].pc \in {"idle", "look", "claim", "bind", "work"}
        /\ act'[a].pc = "idle" \/ act'[a].obj = act[a].obj
    BY <1>2, Actor, Alphabet, GotoMoves, IdleMoves DEF TInv, SetupReturns, Pcs, Working, Setup
  <1>4. /\ a \in Actors /\ closed \in BOOLEAN /\ inProgress \in BOOLEAN
        /\ daemon \in {"running", "stopping", "stopped"}
    BY Actor DEF TInv, Typed, TypeOK
  <1>5. act'[a].pc \notin Taking \cup {"add", "remove", "unlisten"} /\ act'[a].pc \notin Stopping
    BY <1>3 DEF Taking, Stopping
  <1>6. QED
    BY <1>1, <1>3, <1>4, <1>5, BindingNames

LEMMA WorkerNames ==
  ASSUME TInv, StartProbeWorker \/ RemoveProbeWorker \/ TeardownProxy
  PROVE  TInv'
  <1>1. /\ UNCHANGED <<daemon, regVars, queue, closed, inProgress, raced>>
        /\ listener' \in {0, listener} /\ worker' \in {0, worker, act[Handler].obj}
        /\ act[Handler].pc # "idle"
    BY DEF StartProbeWorker, RemoveProbeWorker, TeardownProxy
  <1>2. /\ Others(Handler) /\ act'[Handler].obj \in {0, act[Handler].obj}
        /\ act'[Handler].pc \in {"idle", "teardown"}
        /\ act'[Handler].pc = "idle" \/ act'[Handler].obj = act[Handler].obj
    BY Actor, Alphabet, GotoMoves, IdleMoves
    DEF TInv, StartProbeWorker, RemoveProbeWorker, TeardownProxy, Pcs
  <1>3. /\ closed \in BOOLEAN /\ inProgress \in BOOLEAN
        /\ daemon \in {"running", "stopping", "stopped"}
    BY DEF TInv, Typed, TypeOK
  <1>4. act'[Handler].pc \notin Taking \cup {"add", "remove", "unlisten"}
        /\ act'[Handler].pc \notin Stopping
    BY <1>2 DEF Taking, Stopping
  <1>5. QED
    BY <1>1, <1>2, <1>3, <1>4, Actor, BindingNames

LEMMA ListNames ==
  ASSUME TInv, SetupList
  PROVE  TInv'
  <1>1. /\ UNCHANGED <<daemon, regVars, queue, closed, bindVars, raced>>
        /\ Main \in Operators /\ act[Main].pc = "list"
    BY Actor DEF SetupList
  <1>2. Others(Main) /\ act'[Main].obj \in 0 .. added /\ act'[Main].pc \in {"idle", "check"}
    <2>1. CASE reg = 0
      BY <1>1, <2>1, Actor, Alphabet, Fields, IdleMoves DEF SetupList
    <2>2. CASE reg # 0
      <3> DEFINE r == [pc |-> "check", kind |-> "boot", obj |-> reg]
      <3>1. act' = [act EXCEPT ![Main] = r] /\ r \in Act /\ r.pc = "check" /\ r.obj = reg
        BY <1>1, <2>2, Fields, Ranges DEF SetupList, Act, Pcs, Kinds, Working, Setup
      <3> HIDE DEF r
      <3>2. Typed /\ Main \in Actors /\ reg \in 0 .. added
        BY <1>1, Fields
      <3>3. Others(Main) /\ act'[Main] = r
        BY <3>1, <3>2 DEF Others, Typed
      <3>4. QED
        BY <3>1, <3>2, <3>3
    <2>3. QED
      BY <2>1, <2>2
  <1>3. act'[Main].pc \notin Taking /\ Room(Main)'
    BY <1>2 DEF Taking, Room, Stopping
  <1>4. QED
    BY <1>1, <1>2, <1>3, Fields, OperationNames DEF regVars

LEMMA CloseNames ==
  ASSUME TInv, CloseListeners \/ StopAll \/ CloseRegistry \/ Drained
  PROVE  TInv'
  <1>1. /\ UNCHANGED <<regVars, queue, inProgress, raced>> /\ daemon' \in {daemon, "stopped"}
        /\ listener' \in {0, listener} /\ worker' \in {0, worker} /\ closed' \in {closed, TRUE}
    BY DEF CloseListeners, StopAll, CloseRegistry, Drained, bindVars
  <1>2. /\ Others(Signals) /\ act'[Signals].obj \in {0, act[Signals].obj}
        /\ act'[Signals].pc \in {"idle", "stopAll", "stop", "close", "drain"}
        /\ act'[Signals].pc \in {"stopAll", "stop"} =>
             act'[Signals].kind = act[Signals].kind /\ act[Signals].pc \in {"unlisten", "stopAll"}
    BY Actor, Alphabet, GotoMoves, IdleMoves
    DEF TInv, CloseListeners, StopAll, CloseRegistry, Drained, Pcs, Stopping, Ending
  <1>3. /\ closed \in BOOLEAN /\ inProgress \in BOOLEAN
        /\ daemon \in {"running", "stopping", "stopped"}
    BY DEF TInv, Typed, TypeOK
  <1>4. /\ act'[Signals].pc \notin Taking \cup {"add", "remove", "unlisten"}
        /\ act'[Signals].pc \in Stopping \cup {"stopAll"} => act'[Signals].kind # "update"
    BY <1>2, Actor DEF Taking, Stopping, TInv, Named, Room
  <1>5. QED
    BY <1>1, <1>2, <1>3, <1>4, Actor, BindingNames

LEMMA InitNames == Init => TInv
  <1> SUFFICES ASSUME Init PROVE TInv
    OBVIOUS
  <1>1. /\ daemon = "running" /\ reg = 1 /\ added = 1 /\ blocked \in BOOLEAN
        /\ service = 0 /\ queue = <<>> /\ closed \in BOOLEAN /\ listener = 0
        /\ inProgress \in BOOLEAN /\ raced \in BOOLEAN /\ worker = 0 /\ stopFailed \in BOOLEAN
    BY DEF Init
  <1>2. /\ act \in [Actors -> Act]
        /\ \A a \in Actors : act[a].obj = 0 /\ act[a].pc \in {"idle", "list", "start"}
        /\ act[Handler].pc = "idle"
    <2> DEFINE boot == [pc |-> IF blocked THEN "list" ELSE "start", kind |-> "boot", obj |-> 0]
    <2>1. act = [a \in Actors |-> IF a # Main THEN Idle ELSE boot]
      BY DEF Init
    <2>2. boot \in Act /\ Idle \in Act /\ boot.pc \in {"list", "start"} /\ boot.obj = 0
      BY ConstantsAssumption, Alphabet DEF Act, Pcs, Kinds, Starting
    <2> HIDE DEF boot
    <2>3. QED
      BY <2>1, <2>2, Actor, Alphabet, ConstantsAssumption
  <1>3. srv \in [Objs -> Srv] /\ 1 \in Objs
    <2>1. 1 \in Objs
      BY ConstantsAssumption DEF Objs
    <2>2. QED
      BY <2>1 DEF Init, Srv, States
  <1>4. Typed
    <2>1. Len(queue) <= QueueCap /\ queue \in Seq([type: {"started", "stopped"}, obj: Objs])
      BY <1>1, ConstantsAssumption
    <2>2. DOMAIN act = Actors
      BY <1>2
    <2>3. 0 \in 0 .. added /\ 1 \in 0 .. added
      BY <1>1
    <2>4. QED
      BY <1>1, <1>2, <1>3, <2>1, <2>2, <2>3, Zenon DEF Typed, TypeOK, Srv, States
  <1>5. Named
    BY <1>1, <1>2, Actor DEF Named, Taking, Room, Stopping
  <1>6. QED
    BY <1>4, <1>5 DEF TInv

LEMMA StepNames == TInv /\ [Next]_vars => TInv'
  <1> SUFFICES ASSUME TInv, [Next]_vars PROVE TInv'
    OBVIOUS
  <1>1. ASSUME NEW a \in Admins, ToolRestart(a) \/ ToolRemove(a) PROVE TInv'
    BY <1>1, Actor, BeginNames
  <1>2. CASE Reload \/ Shutdown
    BY <1>2, Actor, BeginNames
  <1>3. ASSUME NEW a \in Operators,
               \/ StartLock(a) \/ StartGuard(a) \/ StartSpawn(a) \/ StartFailed(a)
               \/ StartPublish(a) \/ FireStarted(a)
        PROVE  TInv'
    BY <1>3, StartNames, FireNames
  <1>4. ASSUME NEW a \in Operators,
               \/ StopLock(a) \/ StopHalt(a) \/ StopFailed(a) \/ StopPublish(a)
               \/ FireStopped(a) \/ Remove(a) \/ Add(a)
        PROVE  TInv'
    BY <1>4, StopNames, FireNames, RemoveNames, AddNames
  <1>5. CASE Deliver \/ StartProbeWorker \/ RemoveProbeWorker \/ TeardownProxy
    BY <1>5, DeliverNames, WorkerNames
  <1>6. ASSUME NEW a \in {Main, Handler},
               SetupCheck(a) \/ SetupLook(a) \/ SetupClaim(a) \/ AddStreamable(a)
        PROVE  TInv'
    BY <1>6, SetupNames
  <1>7. CASE SetupList \/ CloseListeners \/ StopAll \/ CloseRegistry \/ Drained
    BY <1>7, ListNames, CloseNames
  <1>8. CASE UNCHANGED vars
    BY <1>8 DEF vars, regVars, bindVars, TInv, Typed, TypeOK, Named, Room
  <1>9. QED
    BY <1>1, <1>2, <1>3, <1>4, <1>5, <1>6, <1>7, <1>8 DEF Next

(* Every variable keeps its type, also when operations overlap: an object  *)
(* is bound, queued or worked on only after it was made, the queue never   *)
(* exceeds its capacity.                                                   *)
THEOREM LifecycleTypes == Spec => []TypeOK
  <1>1. TInv => TypeOK
    BY DEF TInv, Typed
  <1>2. QED
    BY InitNames, StepNames, <1>1, PTL DEF Spec
---------------------------------------------------------------------------
(* The invariant of the events.                                            *)

(* The object that the handler last heard has started, 0 if it last heard  *)
(* of a stop, and the same once it has handled all events that were sent.  *)
Handled ==
  IF act[Handler].pc \in Working THEN act[Handler].obj
  ELSE IF act[Handler].pc = "idle" THEN worker ELSE 0
Says(e) == IF e.type = "started" THEN e.obj ELSE 0
Last == IF queue = <<>> THEN Handled ELSE Says(queue[Len(queue)])

(* Until operations race, one at most is between its first lock and its    *)
(* event.  The others may be anywhere else.                                *)
Alone == \A a, b \in Operators : act[a].pc \in Taking /\ act[b].pc \in Taking => a = b

(* Who does what.                                                          *)
Tasks ==
  /\ \A a \in Admins : /\ act[a].pc \in {"idle", "remove"} \cup Starting \cup Stopping
                       /\ act[a].kind \in {"none", "restart", "remove"}
  /\ /\ act[Main].pc \in {"idle", "list"} \cup Starting \cup Setup
     /\ act[Main].pc # "idle" => act[Main].kind = "boot"
     /\ act[Main].kind \in {"none", "boot"}
  /\ /\ act[Signals].pc \in {"idle", "remove", "add"} \cup Starting \cup Stopping \cup Ending
     /\ act[Signals].kind \in {"none", "add", "drop", "update", "shutdown"}
  /\ act[Handler].pc \in {"idle", "unwork", "teardown"} \cup Working

(* The servers have been stopped for good.                                 *)
Over == daemon = "stopped" \/ act[Signals].pc \in {"close", "drain"}

Shut ==
  /\ daemon = "stopping" <=> act[Signals].kind = "shutdown"
  /\ act[Signals].kind = "shutdown" => act[Signals].pc \in Stopping \cup Ending
  /\ act[Signals].pc \in Ending => act[Signals].kind = "shutdown"
  /\ daemon # "running" => \A a \in Admins : act[a].pc = "idle"
  /\ closed => daemon = "stopped" \/ act[Signals].pc = "drain"
  /\ Over => ~At(Taking) /\ (reg # 0 => State(reg) \in {"stopped", "failed"})
  /\ daemon = "stopped" =>
       /\ act[Signals].pc = "idle" /\ queue = <<>> /\ act[Handler].pc = "idle" /\ worker = 0
       /\ stopFailed \/ (listener = 0 /\ service = 0)

Objects ==
  /\ \A a \in Operators :
       /\ act[a].pc \in {"spawn", "startFailed", "publish"}
            => act[a].obj = reg /\ reg # 0 /\ State(reg) = "starting"
       /\ act[a].pc \in {"halt", "stopFailed", "halted"}
            => act[a].obj = reg /\ reg # 0 /\ State(reg) = "stopping"
       /\ act[a].pc = "fireStarted" => act[a].obj = reg /\ reg # 0 /\ State(reg) = "running"
       /\ act[a].pc = "fireStopped" =>
            act[a].obj \in 1 .. added /\ (reg # 0 => State(reg) = "stopped")
       /\ act[a].pc = "stopFailed" => stopFailed /\ srv[reg].proc
  /\ reg # 0 /\ State(reg) = "starting" => At({"spawn", "startFailed", "publish"})
  /\ reg # 0 /\ State(reg) = "stopping" => At({"halt", "stopFailed", "halted"})
  /\ \A o \in Objs : State(o) \in {"starting", "running", "stopping"} => o = reg
  /\ \A o \in Objs : o > added => srv[o] = [state |-> "stopped", proc |-> FALSE]

Processes ==
  /\ \A o \in Objs : srv[o].proc => service = o \/ (o = reg /\ At({"halted"}))
  /\ service # 0 => Managed /\ (srv[service].proc \/ At({"publish"}))
  /\ At({"halted"}) => service # reg
  /\ Running => srv[reg].proc = Managed
  /\ At({"publish"}) /\ Managed => service = reg
  /\ service # 0 /\ ~stopFailed =>
       service = reg /\ (State(reg) \in {"running", "stopping"} \/ At({"publish"}))

News ==
  /\ Last # 0 /\ ~At({"fireStopped"}) =>
       \/ Last = reg /\ State(reg) \in {"running", "stopping"}
       \/ stopFailed /\ service = Last
  /\ At({"publish", "fireStarted"}) => Last = 0
  /\ Running /\ ~At({"fireStarted"}) => Last = reg

Alternate ==
  /\ \A i \in 2 .. Len(queue) : queue[i].type = "started" => queue[i-1].type = "stopped"
  /\ queue # <<>> /\ queue[1].type = "started" => Handled = 0

(* The listener is that of the object the handler has heard of, or the     *)
(* handler will hear of its stop, or of its start, which Daemon.Start's    *)
(* setup did not wait for.                                                 *)
Owed ==
  \/ listener \in {0, Handled} \/ act[Handler].pc \in {"unwork", "teardown"}
  \/ \E i \in 1 .. Len(queue) : queue[i].type = "stopped"
  \/ queue # <<>> /\ queue[1].type = "started" /\ queue[1].obj = listener
  \/ \E a \in Operators : act[a].pc = "fireStarted" /\ act[a].obj = listener

Binding ==
  /\ act[Handler].pc \in Working \cup {"teardown"} => worker = 0
  /\ daemon # "stopped" => Owed
  /\ inProgress <=> act[Main].pc = "bind" \/ act[Handler].pc = "bind"
  /\ ~(act[Main].pc = "bind" /\ act[Handler].pc = "bind")

Boot ==
  /\ act[Main].pc = "check" => act[Main].obj # 0
  /\ act[Main].pc \in {"look", "claim", "bind"} =>
       act[Main].obj = reg /\ reg # 0 /\ State(reg) = "running"

Bound ==
  daemon = "running" /\ Running /\ ~At({"fireStarted"})
    /\ queue = <<>> /\ act[Handler].pc \in {"idle", "work"}
    => listener = reg \/ act[Main].pc = "bind"

IInv == /\ TInv /\ Alone /\ Tasks /\ Shut /\ Objects /\ Processes
        /\ News /\ Alternate /\ Binding /\ Boot /\ Bound

(* What the invariant of the types says of the values.                     *)
LEMMA Known ==
  ASSUME TInv
  PROVE  /\ Typed /\ MaxAdds \in Nat /\ added \in 1 .. MaxAdds /\ added \in Nat
         /\ Objs = 1 .. MaxAdds /\ srv \in [Objs -> Srv]
         /\ reg \in 0 .. added /\ reg \in 0 .. MaxAdds
         /\ reg # 0 => reg \in 1 .. added /\ reg \in Objs /\ State(reg) \in States
         /\ service \in 0 .. added /\ (service # 0 => service \in Objs)
         /\ queue \in Seq(Event) /\ Len(queue) \in Nat /\ (queue = <<>> <=> Len(queue) = 0)
         /\ \A i \in 1 .. Len(queue) : queue[i] \in Event /\ queue[i].obj \in 1 .. added
         /\ act[Handler].pc # "idle" => act[Handler].obj \in 1 .. added
         /\ daemon \in {"running", "stopping", "stopped"}
         /\ raced \in BOOLEAN /\ stopFailed \in BOOLEAN
  <1>1. Typed
    BY DEF TInv
  <1>2. queue \in Seq(Event) /\ \A i \in 1 .. Len(queue) : queue[i].obj \in 1 .. added
    BY <1>1 DEF TInv, Named, Typed, TypeOK, Event
  <1>3. /\ Len(queue) \in Nat /\ (queue = <<>> <=> Len(queue) = 0)
        /\ \A i \in 1 .. Len(queue) : queue[i] \in Event
    BY <1>2
  <1>4. QED
    BY <1>1, <1>2, <1>3, Ranges DEF TInv, Named, Typed, TypeOK

(* Nobody but a is between its first lock and its event.                   *)
Sole(a) ==
  /\ \A b \in Operators \ {a} : act[b].pc \notin Taking
  /\ At({"spawn", "startFailed", "publish"}) <=> act[a].pc \in {"spawn", "startFailed", "publish"}
  /\ At({"halt", "stopFailed", "halted"}) <=> act[a].pc \in {"halt", "stopFailed", "halted"}
  /\ At({"publish", "fireStarted"}) <=> act[a].pc \in {"publish", "fireStarted"}
  /\ At({"publish"}) <=> act[a].pc = "publish"
  /\ At({"halted"}) <=> act[a].pc = "halted"
  /\ At({"fireStarted"}) <=> act[a].pc = "fireStarted"
  /\ At({"fireStopped"}) <=> act[a].pc = "fireStopped"
  /\ At(Taking) <=> act[a].pc \in Taking

LEMMA SoleIs ==
  ASSUME NEW a \in Operators, \A b \in Operators \ {a} : act[b].pc \notin Taking
  PROVE  Sole(a)
  BY DEF At, Sole, Taking

(* The same operations are there as before.                                *)
Alike ==
  /\ At({"spawn", "startFailed", "publish"})' <=> At({"spawn", "startFailed", "publish"})
  /\ At({"halt", "stopFailed", "halted"})' <=> At({"halt", "stopFailed", "halted"})
  /\ At({"publish", "fireStarted"})' <=> At({"publish", "fireStarted"})
  /\ At({"publish"})' <=> At({"publish"})
  /\ At({"halted"})' <=> At({"halted"})
  /\ At({"fireStarted"})' <=> At({"fireStarted"})
  /\ At({"fireStopped"})' <=> At({"fireStopped"})
  /\ At(Taking)' <=> At(Taking)

LEMMA AlikeIs ==
  ASSUME \A a \in Operators : \/ act'[a].pc = act[a].pc
                              \/ act[a].pc \notin Taking /\ act'[a].pc \notin Taking
  PROVE  Alike
  BY DEF At, Alike, Taking

(* Nobody but a moves.                                                     *)
Frame(a) ==
  /\ act'[Handler] = act[Handler]
  /\ \A b \in Operators \ {a} : act'[b] = act[b]
  /\ a # Signals => act'[Signals] = act[Signals]
  /\ a # Main => act'[Main] = act[Main]

(* A step of a that sends no event and binds nothing keeps what was said   *)
(* of them.                                                                *)
Kept == Alternate' /\ Binding' /\ Handled' = Handled /\ Last' = Last

LEMMA Keeping ==
  ASSUME IInv, NEW a \in Operators, Others(a), UNCHANGED <<queue, closed, bindVars>>,
         act[a].pc # "fireStarted", daemon' = daemon \/ daemon # "stopped",
         a = Main => act[a].pc # "bind" /\ act'[a].pc # "bind"
  PROVE  Kept /\ Frame(a)
  <1>1. Frame(a)
    BY Actor DEF Others, Frame
  <1>2. Handled' = Handled
    BY <1>1 DEF Handled, Frame, bindVars
  <1>3. Last' = Last
    BY <1>2 DEF Last, Says
  <1>4. Alternate'
    BY <1>2 DEF IInv, Alternate
  <1>5. Owed => Owed'
    BY <1>1, <1>2, Actor DEF Owed, Frame, bindVars
  <1>6. Binding'
    BY <1>1, <1>5 DEF IInv, Binding, Frame, bindVars
  <1>7. QED
    BY <1>1, <1>2, <1>3, <1>4, <1>6 DEF Kept

(* A step of the operation between its first lock and its event, and the   *)
(* step that makes a that operation.                                       *)
Moves(a) == Kept /\ Frame(a) /\ Alone' /\ Sole(a) /\ Sole(a)'

LEMMA Moving ==
  ASSUME IInv, NEW a \in Operators, Others(a),
         UNCHANGED <<daemon, reg, added, queue, closed, bindVars>>,
         act[a].pc \in Taking \/ ~Crosses(a), act[a].pc # "fireStarted",
         act[a].pc \notin Setup, act'[a].pc \notin Setup
  PROVE  Moves(a)
  <1>1. Kept /\ Frame(a)
    BY Keeping DEF Setup
  <1>2. \A b \in Operators \ {a} : act[b].pc \notin Taking
    <2>1. CASE act[a].pc \in Taking
      BY <2>1 DEF IInv, Alone
    <2>2. CASE ~Crosses(a)
      BY <2>2 DEF Crosses, Midway, Taking
    <2>3. QED
      BY <2>1, <2>2
  <1>3. \A b \in Operators \ {a} : act'[b].pc \notin Taking
    BY <1>1, <1>2 DEF Frame
  <1>4. Sole(a)
    BY <1>2, SoleIs
  <1>5. Sole(a)'
    BY <1>3 DEF At, Sole, Taking
  <1>6. Alone'
    BY <1>3 DEF Alone
  <1>7. QED
    BY <1>1, <1>4, <1>5, <1>6 DEF Moves

(* A step of an operation that is elsewhere.                               *)
Waits(a) == Kept /\ Frame(a) /\ Alone' /\ Alike

LEMMA Waiting ==
  ASSUME IInv, NEW a \in Operators, Others(a), UNCHANGED <<queue, closed, bindVars>>,
         act[a].pc \notin Taking, act'[a].pc \notin Taking,
         daemon' = daemon \/ daemon # "stopped",
         a = Main => act[a].pc # "bind" /\ act'[a].pc # "bind"
  PROVE  Waits(a)
  <1>1. Kept /\ Frame(a)
    BY Keeping DEF Taking
  <1>2. Alike
    BY <1>1, AlikeIs DEF Frame
  <1>3. Alone'
    BY <1>1 DEF IInv, Alone, Frame
  <1>4. QED
    BY <1>1, <1>2, <1>3 DEF Waits

(* When it changes no server either, this is what is left to show of it.   *)
LEMMA Passing ==
  ASSUME IInv, NEW a \in Operators, Others(a), UNCHANGED <<regVars, queue, closed, bindVars>>,
         act[a].pc \notin Taking, act'[a].pc \notin Taking,
         daemon' = daemon \/ daemon = "running",
         a = Main => act[a].pc # "bind" /\ act'[a].pc # "bind",
         TInv', Tasks', Shut', Boot'
  PROVE  IInv'
  <1>1. Waits(a)
    BY Waiting
  <1>2. Objects'
    BY <1>1 DEF Waits, Alike, Frame, IInv, Objects, State, Taking, regVars
  <1>3. Processes'
    BY <1>1 DEF Waits, Alike, IInv, Processes, Running, State, regVars
  <1>4. News'
    BY <1>1 DEF Waits, Kept, Alike, IInv, News, Running, State, regVars
  <1>5. Bound'
    BY <1>1, Actor DEF Waits, Frame, Alike, IInv, Bound, Running, State, regVars, bindVars
  <1>6. QED
    BY <1>1, <1>2, <1>3, <1>4, <1>5 DEF IInv, Waits, Kept

---------------------------------------------------------------------------
(* The steps that change no server.                                        *)

(* Once the operations have ended and the server is down, no Start or Stop *)
(* is left, but for one that the shutdown itself does.                     *)
LEMMA NothingTaken ==
  ASSUME IInv, daemon # "running", act[Signals].pc \notin Taking,
         reg = 0 \/ State(reg) \in {"stopped", "failed"}
  PROVE  ~At(Taking)
  <1>1. act[Main].pc \notin Taking
    BY Actor DEF IInv, Tasks, Objects, Taking, Starting, Setup
  <1>2. \A a \in Admins : act[a].pc \notin Taking
    BY DEF IInv, Shut, Taking
  <1>3. QED
    BY <1>1, <1>2, Actor DEF At

LEMMA StartWaits ==
  ASSUME IInv, TInv', NEW a \in Operators, StartLock(a), act'[a].pc # "spawn"
  PROVE  IInv'
  <1>1. /\ Others(a) /\ UNCHANGED <<daemon, regVars, queue, closed, bindVars, raced>>
        /\ \/ act'[a].pc = "guard" /\ act'[a].kind = act[a].kind
           \/ act'[a].pc = "list" /\ act[a].kind = "boot" /\ act'[a].kind = "boot"
           \/ act'[a].pc = "remove" /\ act[a].kind = "add" /\ act'[a].kind = "add"
           \/ act'[a].pc = "idle" /\ act[a].kind # "boot" /\ act'[a].kind = "none"
    BY StartLocked DEF IInv, TInv
  <1>2. act[a].pc \in {"start", "unblock"}
    BY DEF StartLock
  <1>3. act[a].pc \notin Taking /\ act'[a].pc \notin Taking
    BY <1>1, <1>2 DEF Taking
  <1>4. Waits(a)
    BY <1>1, <1>2, <1>3, Waiting
  <1>5. Tasks'
    BY <1>1, <1>2, <1>4, Actor DEF Waits, Frame, IInv, Tasks, Starting, Stopping, Setup
  <1>6. Shut'
    BY <1>1, <1>2, <1>4, Actor
    DEF Waits, Frame, Alike, IInv, Shut, Over, Stopping, Ending, State, regVars, bindVars
  <1>7. Boot'
    BY <1>1, <1>4 DEF Waits, Frame, IInv, Boot, State, regVars
  <1>8. QED
    BY <1>1, <1>2, <1>3, <1>5, <1>6, <1>7, Passing

LEMMA StartGuardKeeps ==
  ASSUME IInv, TInv', NEW a \in Operators, StartGuard(a)
  PROVE  IInv'
  <1>1. /\ Others(a) /\ UNCHANGED <<daemon, regVars, queue, closed, bindVars, raced>>
        /\ \/ act'[a].pc = "unblock" /\ act'[a].kind = act[a].kind
           \/ act'[a].pc = "list" /\ act[a].kind = "boot" /\ act'[a].kind = "boot"
           \/ act'[a].pc = "remove" /\ act[a].kind = "add" /\ act'[a].kind = "add"
           \/ act'[a].pc = "idle" /\ act[a].kind # "boot" /\ act'[a].kind = "none"
    BY Actor, GotoMoves, StartReturned DEF StartGuard, IInv, TInv, Pcs, Starting
  <1>2. act[a].pc = "guard"
    BY DEF StartGuard
  <1>3. act[a].pc \notin Taking /\ act'[a].pc \notin Taking
    BY <1>1, <1>2 DEF Taking
  <1>4. Waits(a)
    BY <1>1, <1>2, <1>3, Waiting
  <1>5. Tasks'
    BY <1>1, <1>2, <1>4, Actor DEF Waits, Frame, IInv, Tasks, Starting, Stopping, Setup
  <1>6. Shut'
    BY <1>1, <1>2, <1>4, Actor
    DEF Waits, Frame, Alike, IInv, Shut, Over, Stopping, Ending, State, regVars, bindVars
  <1>7. Boot'
    BY <1>1, <1>4 DEF Waits, Frame, IInv, Boot, State, regVars
  <1>8. QED
    BY <1>1, <1>2, <1>3, <1>5, <1>6, <1>7, Passing

LEMMA StopReturnsAtOnce ==
  ASSUME IInv, TInv', NEW a \in Operators, StopLock(a), act'[a].pc # "halt"
  PROVE  IInv'
  <1>1. /\ Others(a) /\ (reg = 0 \/ State(reg) = "stopped")
        /\ UNCHANGED <<daemon, regVars, queue, closed, bindVars, raced>>
        /\ \/ act'[a].pc = "close" /\ act[a].kind = "shutdown" /\ act'[a].kind = "shutdown"
           \/ /\ act'[a].pc = "remove" /\ act[a].kind \in {"drop", "remove", "update"}
              /\ act'[a].kind = act[a].kind
           \/ act'[a].pc = "start" /\ act[a].kind = "restart" /\ act'[a].kind = "restart"
           \/ act'[a].pc = "idle" /\ act[a].kind # "shutdown" /\ act'[a].kind = "none"
    BY StopLocked DEF IInv, TInv, regVars
  <1>2. act[a].pc = "stop" /\ a # Main
    BY Actor DEF StopLock, IInv, Tasks, Starting, Setup
  <1>3. act[a].pc \notin Taking /\ act'[a].pc \notin Taking
    BY <1>1, <1>2 DEF Taking
  <1>4. Waits(a)
    BY <1>1, <1>2, <1>3, Waiting
  <1>5. Tasks'
    <2>1. CASE a = Signals
      BY <1>1, <1>2, <1>4, <2>1, Actor
      DEF Waits, Frame, IInv, Tasks, Starting, Stopping, Ending, Setup
    <2>2. CASE a \in Admins
      BY <1>1, <1>2, <1>4, <2>2, Actor DEF Waits, Frame, IInv, Tasks, Starting, Stopping, Setup
    <2>3. QED
      BY <1>2, <2>1, <2>2, Actor
  <1>6. Shut'
    <2>1. CASE a = Signals
      <3>1. act'[a].pc = "close" => ~At(Taking)
        BY <1>1, <1>3, <2>1, NothingTaken DEF IInv, Shut
      <3>2. daemon # "stopped"
        BY <1>2, <2>1 DEF IInv, Shut
      <3>3. QED
        BY <1>1, <1>2, <1>4, <2>1, <3>1, <3>2, Actor
        DEF Waits, Frame, Alike, IInv, Tasks, Shut, Over, Stopping, Ending, State, regVars, bindVars
    <2>2. CASE a \in Admins
      BY <1>1, <1>2, <1>4, <2>2, Actor
      DEF Waits, Frame, Alike, IInv, Shut, Over, State, regVars, bindVars
    <2>3. QED
      BY <1>2, <2>1, <2>2, Actor
  <1>7. Boot'
    BY <1>1, <1>2, <1>4 DEF Waits, Frame, IInv, Boot, State, regVars
  <1>8. QED
    BY <1>1, <1>2, <1>3, <1>5, <1>6, <1>7, Passing

(* An operation begins.                                                    *)
LEMMA BeginKeeps ==
  ASSUME IInv, TInv', NEW a \in Operators,
         \/ a \in Admins /\ (ToolRestart(a) \/ ToolRemove(a))
         \/ a = Signals /\ (Reload \/ Shutdown)
  PROVE  IInv'
  <1>1. /\ act[a].pc = "idle" /\ daemon = "running"
        /\ UNCHANGED <<regVars, queue, closed, bindVars, raced>>
    BY DEF ToolRestart, ToolRemove, Reload, Shutdown, Begins
  <1>2. \/ /\ a \in Admins /\ daemon' = daemon
           /\ \E kind \in {"restart", "remove"}, pc \in {"stop", "remove"} : Begin(a, kind, pc)
        \/ /\ a = Signals /\ daemon' = daemon
           /\ \E pc \in {"add", "stop"}, kind \in {"add", "drop", "update"} : Begin(a, kind, pc)
        \/ /\ a = Signals /\ daemon' = "stopping" /\ Begin(a, "shutdown", "unlisten")
           /\ \A b \in Admins : act[b].pc = "idle"
    BY DEF ToolRestart, ToolRemove, Reload, Shutdown
  <1>3. /\ Others(a)
        /\ \/ /\ a \in Admins /\ daemon' = daemon
              /\ act'[a].kind \in {"restart", "remove"} /\ act'[a].pc \in {"stop", "remove"}
           \/ /\ a = Signals /\ daemon' = daemon
              /\ act'[a].pc \in {"add", "stop"} /\ act'[a].kind \in {"add", "drop", "update"}
           \/ /\ a = Signals /\ daemon' = "stopping"
              /\ act'[a].pc = "unlisten" /\ act'[a].kind = "shutdown"
              /\ \A b \in Admins : act[b].pc = "idle"
    BY <1>2, Actor, BeginMoves DEF IInv, TInv, Pcs, Stopping, Ending, Kinds
  <1>4. a # Main /\ act[a].pc \notin Taking /\ act'[a].pc \notin Taking
    BY <1>1, <1>3, Actor DEF Taking
  <1>5. Waits(a)
    BY <1>1, <1>3, <1>4, Waiting
  <1>6. Tasks'
    BY <1>3, <1>5, Actor DEF Waits, Frame, IInv, Tasks, Stopping, Ending
  <1>7. Shut'
    BY <1>1, <1>3, <1>5, Actor
    DEF Waits, Frame, Alike, IInv, Shut, Over, Stopping, Ending, State, regVars, bindVars
  <1>8. Boot'
    BY <1>1, <1>4, <1>5 DEF Waits, Frame, IInv, Boot, State, regVars
  <1>9. QED
    BY <1>1, <1>3, <1>4, <1>6, <1>7, <1>8, Passing

LEMMA SetupListKeeps ==
  ASSUME IInv, TInv', SetupList
  PROVE  IInv'
  <1>1. /\ act[Main].pc = "list" /\ Main \in Operators
        /\ UNCHANGED <<daemon, regVars, queue, closed, bindVars, raced>>
    BY Actor DEF SetupList
  <1>2. /\ Others(Main)
        /\ \/ act'[Main].pc = "idle" /\ act'[Main].kind = "none"
           \/ act'[Main].pc = "check" /\ act'[Main].kind = "boot" /\ act'[Main].obj # 0
    <2> DEFINE r == [pc |-> "check", kind |-> "boot", obj |-> reg]
    <2>1. /\ r.pc = "check" /\ r.kind = "boot" /\ r.obj = reg /\ Idle.pc = "idle" /\ Idle.kind = "none"
          /\ act \in [Actors -> Act] /\ act' \in [Actors -> Act] /\ Main \in Actors
      BY Actor, Alphabet DEF IInv, TInv, Typed
    <2>2. act' = [act EXCEPT ![Main] = IF reg = 0 THEN Idle ELSE r]
      BY DEF SetupList
    <2> HIDE DEF r
    <2>3. QED
      BY <2>1, <2>2 DEF Others
  <1>3. act[Main].pc \notin Taking /\ act'[Main].pc \notin Taking
    BY <1>1, <1>2 DEF Taking
  <1>4. Waits(Main)
    BY <1>1, <1>2, <1>3, Waiting
  <1>5. Tasks'
    BY <1>2, <1>4, Actor DEF Waits, Frame, IInv, Tasks, Setup
  <1>6. Shut'
    BY <1>1, <1>4, Actor
    DEF Waits, Frame, Alike, IInv, Shut, Over, State, regVars, bindVars
  <1>7. Boot'
    BY <1>2 DEF Boot
  <1>8. QED
    BY <1>1, <1>2, <1>3, <1>5, <1>6, <1>7, Passing

LEMMA StopAllKeeps ==
  ASSUME IInv, TInv', StopAll
  PROVE  IInv'
  <1>1. /\ act[Signals].pc = "stopAll" /\ Signals \in Operators /\ Signals # Main
        /\ UNCHANGED <<daemon, regVars, queue, closed, bindVars, raced>>
    BY Actor DEF StopAll
  <1>2. /\ Others(Signals) /\ act'[Signals].pc \in {"stop", "close"}
        /\ act'[Signals].kind = act[Signals].kind
        /\ act'[Signals].pc = "close" => reg = 0 \/ ~Up(reg)
    BY Actor, GotoMoves DEF StopAll, IInv, TInv, Pcs, Stopping, Ending
  <1>3. act[Signals].pc \notin Taking /\ act'[Signals].pc \notin Taking
    BY <1>1, <1>2 DEF Taking
  <1>4. act[Signals].kind = "shutdown" /\ daemon = "stopping"
    BY <1>1 DEF IInv, Shut, Ending
  <1>5. Waits(Signals)
    BY <1>1, <1>2, <1>3, Waiting
  <1>6. Tasks'
    BY <1>2, <1>4, <1>5, Actor DEF Waits, Frame, IInv, Tasks, Stopping, Ending
  <1>7. Shut'
    <2>1. act'[Signals].pc = "close" => reg = 0 \/ State(reg) \in {"stopped", "failed"}
      <3>1. ~At({"halt", "stopFailed", "halted"})
        <4>1. act[Main].pc \notin {"halt", "stopFailed", "halted"}
          BY DEF IInv, Tasks, Starting, Setup
        <4>2. QED
          BY <1>1, <1>4, <4>1, Actor DEF IInv, Shut, At
      <3>2. QED
        BY <1>2, <3>1, Known DEF IInv, Objects, Up, States
    <2>2. act'[Signals].pc = "close" => ~At(Taking)
      BY <1>3, <1>4, <2>1, NothingTaken
    <2>3. QED
      BY <1>1, <1>2, <1>4, <1>5, <2>1, <2>2, Actor
      DEF Waits, Frame, Alike, IInv, Shut, Over, Stopping, Ending, State, regVars, bindVars
  <1>8. Boot'
    BY <1>1, <1>5 DEF Waits, Frame, IInv, Boot, State, regVars
  <1>9. QED
    BY <1>1, <1>2, <1>3, <1>6, <1>7, <1>8, Passing

(* Registry.Remove and Registry.Add.                                       *)
LEMMA RemoveKeeps ==
  ASSUME IInv, TInv', NEW a \in Operators, Remove(a)
  PROVE  IInv'
  <1>1. /\ Others(a)
        /\ \/ reg' = reg /\ act'[a].pc = "idle" /\ act'[a].kind = "none"
           \/ /\ reg # 0 /\ State(reg) \in {"stopped", "failed"} /\ reg' = 0
              /\ \/ act[a].kind = "update" /\ act'[a].pc = "add" /\ act'[a].kind = "update"
                 \/ act'[a].pc = "idle" /\ act'[a].kind = "none"
        /\ UNCHANGED <<daemon, added, srv, blocked, service, stopFailed, queue, closed, bindVars>>
    BY Actor, GotoMoves, IdleMoves, Known DEF Remove, IInv, TInv, States, Pcs
  <1>2. act[a].pc = "remove" /\ a # Main
    BY Actor DEF Remove, IInv, Tasks, Starting, Setup
  <1>3. act[a].pc \notin Taking /\ act'[a].pc \notin Taking
    BY <1>1, <1>2 DEF Taking
  <1>4. Waits(a)
    BY <1>1, <1>2, <1>3, Waiting
  <1>5. Tasks'
    BY <1>1, <1>2, <1>4, Actor DEF Waits, Frame, IInv, Tasks, Starting, Stopping, Setup
  <1>6. Shut'
    BY <1>1, <1>2, <1>4, Actor
    DEF Waits, Frame, Alike, IInv, Shut, Over, Stopping, Ending, State, bindVars
  <1>7. Objects'
    BY <1>1, <1>3, <1>4 DEF Waits, Frame, Alike, IInv, Objects, State, Taking
  <1>8. Processes'
    BY <1>1, <1>4, Known DEF Waits, Alike, IInv, Processes, Objects, State, Running, At
  <1>9. News'
    BY <1>1, <1>4, Known DEF Waits, Kept, Alike, IInv, News, Objects, State, Running
  <1>10. Boot'
    BY <1>1, <1>2, <1>4 DEF Waits, Frame, IInv, Boot, State
  <1>11. Bound'
    BY <1>1, <1>2, <1>4 DEF Waits, Frame, Alike, IInv, Bound, State, Running, bindVars
  <1>12. QED
    BY <1>4, <1>5, <1>6, <1>7, <1>8, <1>9, <1>10, <1>11 DEF IInv, Waits, Kept

LEMMA AddKeeps ==
  ASSUME IInv, TInv', NEW a \in Operators, Add(a)
  PROVE  IInv'
  <1>1. /\ Others(a)
        /\ \/ UNCHANGED <<reg, added>> /\ act'[a].pc = "idle" /\ act'[a].kind = "none"
           \/ /\ reg = 0 /\ reg' = added + 1 /\ added' = added + 1
              /\ \/ act'[a].pc = "start" /\ act'[a].kind = act[a].kind
                 \/ act'[a].pc = "idle" /\ act'[a].kind = "none"
        /\ UNCHANGED <<daemon, srv, blocked, service, stopFailed, queue, closed, bindVars>>
    BY Actor, GotoMoves, IdleMoves DEF Add, IInv, TInv, Pcs, Starting
  <1>2. act[a].pc = "add" /\ a = Signals /\ a # Main /\ added < MaxAdds /\ added + 1 \in Objs
    BY Actor, Known DEF Add, IInv, TInv, Named, Room
  <1>3. act[a].pc \notin Taking /\ act'[a].pc \notin Taking
    BY <1>1, <1>2 DEF Taking
  <1>4. Waits(a)
    BY <1>1, <1>2, <1>3, Waiting
  <1>5. Tasks'
    BY <1>1, <1>2, <1>4, Actor DEF Waits, Frame, IInv, Tasks, Starting, Stopping, Setup
  <1>6. Shut'
    <2>1. daemon = "running"
      BY <1>2, Known DEF IInv, Shut, Stopping, Ending
    <2>2. QED
      BY <1>1, <1>2, <1>4, <2>1, Actor
      DEF Waits, Frame, IInv, Tasks, Shut, Over, Stopping, Ending, State, bindVars
  <1>7. reg' # reg => /\ reg = 0 /\ State(reg') = "stopped" /\ ~srv[reg'].proc
                      /\ added < added' /\ added \in Nat
    BY <1>1, <1>2, Known DEF IInv, Objects, State
  <1>8. Objects'
    <2>1. \A o \in Objs : State(o) \in {"starting", "running", "stopping"} => o = reg'
      BY <1>1, <1>7, Known DEF IInv, Objects
    <2>2. QED
      BY <1>1, <1>3, <1>4, <1>7, <2>1, Known DEF Waits, Frame, Alike, IInv, Objects, State, Taking
  <1>9. Processes'
    BY <1>1, <1>4, <1>7, Known DEF Waits, Alike, IInv, Processes, Objects, State, Running, At
  <1>10. News'
    BY <1>1, <1>4, <1>7, Known DEF Waits, Kept, Alike, IInv, News, Objects, State, Running
  <1>11. Boot'
    BY <1>1, <1>2, <1>4, <1>7 DEF Waits, Frame, IInv, Boot, State
  <1>12. Bound'
    BY <1>1, <1>2, <1>4, <1>7 DEF Waits, Frame, Alike, IInv, Bound, State, Running, bindVars
  <1>13. QED
    BY <1>4, <1>5, <1>6, <1>8, <1>9, <1>10, <1>11, <1>12 DEF IInv, Waits, Kept

---------------------------------------------------------------------------
(* The steps between the first lock and the event.                         *)

LEMMA NotOver ==
  ASSUME IInv, NEW a \in Operators, act[a].pc \in Taking
  PROVE  ~Over
  BY DEF IInv, Shut, At

(* Registry.Start.  It begins alone, or operations have raced.             *)
LEMMA StartBegins ==
  ASSUME IInv, TInv', NEW a \in Operators, ~raced', StartLock(a), act'[a].pc = "spawn"
  PROVE  IInv'
  <1>1. /\ Others(a) /\ act'[a].pc = "spawn" /\ act'[a].kind = act[a].kind /\ act'[a].obj = reg
        /\ reg # 0 /\ reg \in Objs /\ State(reg) \in {"stopped", "failed", "stopping"}
        /\ Becomes(reg, "starting", srv[reg].proc)
        /\ ~Crosses(a) /\ daemon = "running"
        /\ UNCHANGED <<daemon, reg, added, service, stopFailed, queue, closed, bindVars>>
    BY StartLocked, Known, StateMoves DEF IInv, States
  <1>2. act[a].pc \in {"start", "unblock"}
    BY DEF StartLock
  <1>3. ~Over
    BY <1>1 DEF IInv, Shut, Over, Ending
  <1>4. Moves(a)
    BY <1>1, <1>2, Moving DEF Setup
  <1>5. Tasks'
    BY <1>1, <1>2, <1>4, Actor
    DEF Moves, Frame, IInv, Tasks, Starting, Stopping, Ending, Setup
  <1>6. Shut'
    BY <1>1, <1>2, <1>3, <1>4, Actor
    DEF Moves, Frame, Sole, IInv, Shut, Over, Starting, Stopping, Ending, State, Becomes, Taking,
        bindVars
  <1>7. Objects'
    <2>1. \A o \in Objs \ {reg} : srv'[o] = srv[o]
      BY <1>1 DEF Becomes
    <2>2. \A o \in Objs : State(o)' \in {"starting", "running", "stopping"} => o = reg
      BY <2>1 DEF IInv, Objects, State
    <2>3. \A o \in Objs : o > added => srv'[o] = [state |-> "stopped", proc |-> FALSE]
      <3>1. reg \in 0 .. added /\ added \in Nat /\ \A o \in Objs : o > added => o # reg
        BY Known DEF IInv
      <3>2. QED
        BY <2>1, <3>1 DEF IInv, Objects
    <2>4. QED
      BY <1>1, <1>2, <1>4, <2>2, <2>3, Known DEF Moves, Sole, IInv, Objects, State, Becomes, Taking
  <1>8. Processes'
    BY <1>1, <1>2, <1>4, Known DEF Moves, Sole, IInv, Processes, Objects, State, Running, Becomes
  <1>9. News'
    BY <1>1, <1>2, <1>4, Known
    DEF Moves, Kept, Sole, IInv, News, Processes, Objects, State, Running, Becomes
  <1>10. Boot'
    BY <1>1, <1>2, <1>4, Known, Actor DEF Moves, Frame, IInv, Boot, State, Becomes
  <1>11. Bound'
    BY <1>1, <1>2, <1>4, Known, Actor
    DEF Moves, Frame, Sole, IInv, Bound, Objects, State, Becomes, Running, bindVars
  <1>12. QED
    BY <1>4, <1>5, <1>6, <1>7, <1>8, <1>9, <1>10, <1>11 DEF IInv, Moves, Kept

LEMMA StartSpawnKeeps ==
  ASSUME IInv, TInv', NEW a \in Operators, StartSpawn(a)
  PROVE  IInv'
  <1>1. /\ Others(a) /\ act'[a].kind = act[a].kind /\ act'[a].obj = act[a].obj
        /\ \/ act'[a].pc = "startFailed" /\ Managed /\ service # 0 /\ service' = service
           \/ /\ act'[a].pc = "publish" /\ (Managed => service = 0)
              /\ service' = IF Managed THEN act[a].obj ELSE service
        /\ UNCHANGED <<daemon, reg, added, srv, blocked, stopFailed, queue, closed, bindVars>>
    BY Actor, GotoMoves DEF StartSpawn, IInv, TInv, Pcs, Starting
  <1>2. /\ act[a].pc = "spawn" /\ act[a].obj = reg /\ reg # 0 /\ reg \in Objs
        /\ State(reg) = "starting"
    BY Known DEF StartSpawn, IInv, Objects
  <1>3. ~Over
    BY <1>2, NotOver DEF Taking
  <1>4. Moves(a)
    BY <1>1, <1>2, Moving DEF Taking, Setup
  <1>5. Tasks'
    BY <1>1, <1>2, <1>4, Actor
    DEF Moves, Frame, IInv, Tasks, Starting, Stopping, Ending, Setup
  <1>6. Shut'
    BY <1>1, <1>2, <1>3, <1>4, Actor
    DEF Moves, Frame, Sole, IInv, Shut, Over, Starting, Stopping, Ending, State, Becomes, Taking,
        bindVars
  <1>7. Objects'
    <2>1. \A o \in Objs \ {reg} : srv'[o] = srv[o]
      BY <1>1 DEF Becomes
    <2>2. \A o \in Objs : State(o)' \in {"starting", "running", "stopping"} => o = reg
      BY <2>1 DEF IInv, Objects, State
    <2>3. \A o \in Objs : o > added => srv'[o] = [state |-> "stopped", proc |-> FALSE]
      <3>1. reg \in 0 .. added /\ added \in Nat /\ \A o \in Objs : o > added => o # reg
        BY Known DEF IInv
      <3>2. QED
        BY <2>1, <3>1 DEF IInv, Objects
    <2>4. QED
      BY <1>1, <1>2, <1>4, <2>2, <2>3, Known DEF Moves, Sole, IInv, Objects, State, Becomes, Taking
  <1>8. Processes'
    BY <1>1, <1>2, <1>4, Known DEF Moves, Sole, IInv, Processes, Objects, State, Running, Becomes
  <1>9. News'
    BY <1>1, <1>2, <1>4, Known
    DEF Moves, Kept, Sole, IInv, News, Processes, Objects, State, Running, Becomes
  <1>10. Boot'
    BY <1>1, <1>2, <1>4, Known, Actor DEF Moves, Frame, IInv, Boot, State, Becomes
  <1>11. Bound'
    BY <1>1, <1>2, <1>4, Known, Actor
    DEF Moves, Frame, Sole, IInv, Bound, Objects, State, Becomes, Running, bindVars
  <1>12. QED
    BY <1>4, <1>5, <1>6, <1>7, <1>8, <1>9, <1>10, <1>11 DEF IInv, Moves, Kept

LEMMA StartFailedKeeps ==
  ASSUME IInv, TInv', NEW a \in Operators, StartFailed(a)
  PROVE  IInv'
  <1>1. /\ Others(a)
        /\ \/ act'[a].pc = "list" /\ act[a].kind = "boot" /\ act'[a].kind = "boot"
           \/ act'[a].pc = "remove" /\ act[a].kind = "add" /\ act'[a].kind = "add"
           \/ act'[a].pc = "idle" /\ act[a].kind # "boot" /\ act'[a].kind = "none"
        /\ Becomes(reg, "failed", srv[reg].proc)
        /\ UNCHANGED <<daemon, reg, added, blocked, service, stopFailed, queue, closed, bindVars>>
    BY StartReturned, StateMoves, Known DEF StartFailed, IInv, Objects, States
  <1>2. /\ act[a].pc = "startFailed" /\ act[a].obj = reg /\ reg # 0 /\ reg \in Objs
        /\ State(reg) = "starting"
    BY Known DEF StartFailed, IInv, Objects
  <1>3. ~Over
    BY <1>2, NotOver DEF Taking
  <1>4. Moves(a)
    BY <1>1, <1>2, Moving DEF Taking, Setup
  <1>5. Tasks'
    BY <1>1, <1>2, <1>4, Actor
    DEF Moves, Frame, IInv, Tasks, Starting, Stopping, Ending, Setup
  <1>6. Shut'
    BY <1>1, <1>2, <1>3, <1>4, Actor
    DEF Moves, Frame, Sole, IInv, Shut, Over, Starting, Stopping, Ending, State, Becomes, Taking,
        bindVars
  <1>7. Objects'
    <2>1. \A o \in Objs \ {reg} : srv'[o] = srv[o]
      BY <1>1 DEF Becomes
    <2>2. \A o \in Objs : State(o)' \in {"starting", "running", "stopping"} => o = reg
      BY <2>1 DEF IInv, Objects, State
    <2>3. \A o \in Objs : o > added => srv'[o] = [state |-> "stopped", proc |-> FALSE]
      <3>1. reg \in 0 .. added /\ added \in Nat /\ \A o \in Objs : o > added => o # reg
        BY Known DEF IInv
      <3>2. QED
        BY <2>1, <3>1 DEF IInv, Objects
    <2>4. QED
      BY <1>1, <1>2, <1>4, <2>2, <2>3, Known DEF Moves, Sole, IInv, Objects, State, Becomes, Taking
  <1>8. Processes'
    BY <1>1, <1>2, <1>4, Known DEF Moves, Sole, IInv, Processes, Objects, State, Running, Becomes
  <1>9. News'
    BY <1>1, <1>2, <1>4, Known
    DEF Moves, Kept, Sole, IInv, News, Processes, Objects, State, Running, Becomes
  <1>10. Boot'
    BY <1>1, <1>2, <1>4, Known, Actor DEF Moves, Frame, IInv, Boot, State, Becomes
  <1>11. Bound'
    BY <1>1, <1>2, <1>4, Known, Actor
    DEF Moves, Frame, Sole, IInv, Bound, Objects, State, Becomes, Running, bindVars
  <1>12. QED
    BY <1>4, <1>5, <1>6, <1>7, <1>8, <1>9, <1>10, <1>11 DEF IInv, Moves, Kept

LEMMA StartPublishKeeps ==
  ASSUME IInv, TInv', NEW a \in Operators, StartPublish(a)
  PROVE  IInv'
  <1>1. /\ Others(a) /\ act'[a].pc = "fireStarted" /\ act'[a].kind = act[a].kind
        /\ act'[a].obj = act[a].obj
        /\ Becomes(reg, "running", Managed)
        /\ UNCHANGED <<daemon, reg, added, blocked, service, stopFailed, queue, closed, bindVars>>
    <2>1. Typed /\ a \in Actors /\ act[a].pc = "publish" /\ act[a].obj = reg /\ reg \in Objs
      BY Actor, Known DEF StartPublish, IInv, Objects
    <2>2. Becomes(reg, "running", Managed)
      BY <2>1, ServerMoves, ConstantsAssumption DEF StartPublish, States
    <2>3. QED
      BY <2>1, <2>2, GotoMoves DEF StartPublish, Pcs, Starting
  <1>2. /\ act[a].pc = "publish" /\ act[a].obj = reg /\ reg # 0 /\ reg \in Objs
        /\ State(reg) = "starting"
    BY Known DEF StartPublish, IInv, Objects
  <1>3. ~Over
    BY <1>2, NotOver DEF Taking
  <1>4. Moves(a)
    BY <1>1, <1>2, Moving DEF Taking, Setup
  <1>5. Tasks'
    BY <1>1, <1>2, <1>4, Actor
    DEF Moves, Frame, IInv, Tasks, Starting, Stopping, Ending, Setup
  <1>6. Shut'
    BY <1>1, <1>2, <1>3, <1>4, Actor
    DEF Moves, Frame, Sole, IInv, Shut, Over, Starting, Stopping, Ending, State, Becomes, Taking,
        bindVars
  <1>7. Objects'
    <2>1. \A o \in Objs \ {reg} : srv'[o] = srv[o]
      BY <1>1 DEF Becomes
    <2>2. \A o \in Objs : State(o)' \in {"starting", "running", "stopping"} => o = reg
      BY <2>1 DEF IInv, Objects, State
    <2>3. \A o \in Objs : o > added => srv'[o] = [state |-> "stopped", proc |-> FALSE]
      <3>1. reg \in 0 .. added /\ added \in Nat /\ \A o \in Objs : o > added => o # reg
        BY Known DEF IInv
      <3>2. QED
        BY <2>1, <3>1 DEF IInv, Objects
    <2>4. QED
      BY <1>1, <1>2, <1>4, <2>2, <2>3, Known DEF Moves, Sole, IInv, Objects, State, Becomes, Taking
  <1>8. Processes'
    BY <1>1, <1>2, <1>4, Known DEF Moves, Sole, IInv, Processes, Objects, State, Running, Becomes
  <1>9. News'
    BY <1>1, <1>2, <1>4, Known
    DEF Moves, Kept, Sole, IInv, News, Processes, Objects, State, Running, Becomes
  <1>10. Boot'
    BY <1>1, <1>2, <1>4, Known, Actor DEF Moves, Frame, IInv, Boot, State, Becomes
  <1>11. Bound'
    BY <1>1, <1>2, <1>4, Known, Actor
    DEF Moves, Frame, Sole, IInv, Bound, Objects, State, Becomes, Running, bindVars
  <1>12. QED
    BY <1>4, <1>5, <1>6, <1>7, <1>8, <1>9, <1>10, <1>11 DEF IInv, Moves, Kept

(* Registry.Stop, likewise.                                                *)
LEMMA StopBegins ==
  ASSUME IInv, TInv', NEW a \in Operators, ~raced', StopLock(a), act'[a].pc = "halt"
  PROVE  IInv'
  <1>1. /\ Others(a) /\ act'[a].pc = "halt" /\ act'[a].kind = act[a].kind /\ act'[a].obj = reg
        /\ reg # 0 /\ reg \in Objs /\ State(reg) # "stopped"
        /\ Becomes(reg, "stopping", srv[reg].proc)
        /\ ~Crosses(a)
        /\ UNCHANGED <<daemon, reg, added, blocked, service, stopFailed, queue, closed, bindVars>>
    BY StopLocked, Known, StateMoves DEF IInv, States
  <1>2. /\ act[a].pc = "stop" /\ a # Main
        /\ act[Main].pc \notin {"look", "claim", "bind"}
    BY <1>1, Actor DEF StopLock, IInv, Tasks, Starting, Setup, Crosses, Midway
  <1>3. ~Over
    <2>1. CASE a = Signals
      BY <1>2, <2>1 DEF IInv, Shut, Over
    <2>2. CASE a \in Admins
      BY <1>2, <2>2 DEF IInv, Shut, Over, Ending
    <2>3. QED
      BY <1>2, <2>1, <2>2, Actor
  <1>4. Moves(a)
    BY <1>1, <1>2, Moving DEF Setup
  <1>5. Tasks'
    BY <1>1, <1>2, <1>4, Actor
    DEF Moves, Frame, IInv, Tasks, Starting, Stopping, Ending, Setup
  <1>6. Shut'
    BY <1>1, <1>2, <1>3, <1>4, Actor
    DEF Moves, Frame, Sole, IInv, Shut, Over, Starting, Stopping, Ending, State, Becomes, Taking,
        bindVars
  <1>7. Objects'
    <2>1. \A o \in Objs \ {reg} : srv'[o] = srv[o]
      BY <1>1 DEF Becomes
    <2>2. \A o \in Objs : State(o)' \in {"starting", "running", "stopping"} => o = reg
      BY <2>1 DEF IInv, Objects, State
    <2>3. \A o \in Objs : o > added => srv'[o] = [state |-> "stopped", proc |-> FALSE]
      <3>1. reg \in 0 .. added /\ added \in Nat /\ \A o \in Objs : o > added => o # reg
        BY Known DEF IInv
      <3>2. QED
        BY <2>1, <3>1 DEF IInv, Objects
    <2>4. QED
      BY <1>1, <1>2, <1>4, <2>2, <2>3, Known DEF Moves, Sole, IInv, Objects, State, Becomes, Taking
  <1>8. Processes'
    BY <1>1, <1>2, <1>4, Known DEF Moves, Sole, IInv, Processes, Objects, State, Running, Becomes
  <1>9. News'
    BY <1>1, <1>2, <1>4, Known
    DEF Moves, Kept, Sole, IInv, News, Processes, Objects, State, Running, Becomes
  <1>10. Boot'
    BY <1>1, <1>2, <1>4, Known, Actor DEF Moves, Frame, IInv, Boot, State, Becomes
  <1>11. Bound'
    BY <1>1, <1>2, <1>4, Known, Actor
    DEF Moves, Frame, Sole, IInv, Bound, Objects, State, Becomes, Running, bindVars
  <1>12. QED
    BY <1>4, <1>5, <1>6, <1>7, <1>8, <1>9, <1>10, <1>11 DEF IInv, Moves, Kept

LEMMA StopHaltKeeps ==
  ASSUME IInv, TInv', NEW a \in Operators, StopHalt(a)
  PROVE  IInv'
  <1>1. /\ Others(a) /\ act'[a].kind = act[a].kind /\ act'[a].obj = act[a].obj
        /\ \/ /\ act'[a].pc = "halted" /\ stopFailed' = stopFailed
              /\ service' = IF srv[reg].proc THEN 0 ELSE service
           \/ /\ act'[a].pc = "stopFailed" /\ stopFailed' = TRUE /\ service' = service
              /\ srv[reg].proc
        /\ UNCHANGED <<daemon, reg, added, srv, blocked, queue, closed, bindVars>>
    BY Actor, GotoMoves DEF StopHalt, IInv, TInv, Objects, Pcs, Stopping
  <1>2. /\ act[a].pc = "halt" /\ act[a].obj = reg /\ reg # 0 /\ reg \in Objs
        /\ State(reg) = "stopping"
    BY Known DEF StopHalt, IInv, Objects
  <1>3. ~Over
    BY <1>2, NotOver DEF Taking
  <1>4. Moves(a)
    BY <1>1, <1>2, Moving DEF Taking, Setup
  <1>5. Tasks'
    BY <1>1, <1>2, <1>4, Actor
    DEF Moves, Frame, IInv, Tasks, Starting, Stopping, Ending, Setup
  <1>6. Shut'
    BY <1>1, <1>2, <1>3, <1>4, Actor
    DEF Moves, Frame, Sole, IInv, Shut, Over, Starting, Stopping, Ending, State, Becomes, Taking,
        bindVars
  <1>7. Objects'
    <2>1. \A o \in Objs \ {reg} : srv'[o] = srv[o]
      BY <1>1 DEF Becomes
    <2>2. \A o \in Objs : State(o)' \in {"starting", "running", "stopping"} => o = reg
      BY <2>1 DEF IInv, Objects, State
    <2>3. \A o \in Objs : o > added => srv'[o] = [state |-> "stopped", proc |-> FALSE]
      <3>1. reg \in 0 .. added /\ added \in Nat /\ \A o \in Objs : o > added => o # reg
        BY Known DEF IInv
      <3>2. QED
        BY <2>1, <3>1 DEF IInv, Objects
    <2>4. QED
      BY <1>1, <1>2, <1>4, <2>2, <2>3, Known DEF Moves, Sole, IInv, Objects, State, Becomes, Taking
  <1>8. Processes'
    BY <1>1, <1>2, <1>4, Known DEF Moves, Sole, IInv, Processes, Objects, State, Running, Becomes
  <1>9. News'
    BY <1>1, <1>2, <1>4, Known
    DEF Moves, Kept, Sole, IInv, News, Processes, Objects, State, Running, Becomes
  <1>10. Boot'
    BY <1>1, <1>2, <1>4, Known, Actor DEF Moves, Frame, IInv, Boot, State, Becomes
  <1>11. Bound'
    BY <1>1, <1>2, <1>4, Known, Actor
    DEF Moves, Frame, Sole, IInv, Bound, Objects, State, Becomes, Running, bindVars
  <1>12. QED
    BY <1>4, <1>5, <1>6, <1>7, <1>8, <1>9, <1>10, <1>11 DEF IInv, Moves, Kept

LEMMA StopFailedKeeps ==
  ASSUME IInv, TInv', NEW a \in Operators, StopFailed(a)
  PROVE  IInv'
  <1>1. /\ Others(a)
        /\ \/ act'[a].pc = "close" /\ act[a].kind = "shutdown" /\ act'[a].kind = "shutdown"
           \/ /\ act'[a].pc = "remove" /\ act[a].kind \in {"drop", "remove", "update"}
              /\ act'[a].kind = act[a].kind
           \/ act'[a].pc = "start" /\ act[a].kind = "restart" /\ act'[a].kind = "restart"
           \/ act'[a].pc = "idle" /\ act[a].kind # "shutdown" /\ act'[a].kind = "none"
        /\ Becomes(reg, "failed", srv[reg].proc) /\ stopFailed
        /\ UNCHANGED <<daemon, reg, added, blocked, service, stopFailed, queue, closed, bindVars>>
    BY StopReturned, StateMoves, Known DEF StopFailed, IInv, Objects, States
  <1>2. /\ act[a].pc = "stopFailed" /\ act[a].obj = reg /\ reg # 0 /\ reg \in Objs
        /\ State(reg) = "stopping"
    BY Known DEF StopFailed, IInv, Objects
  <1>3. ~Over
    BY <1>2, NotOver DEF Taking
  <1>4. Moves(a)
    BY <1>1, <1>2, Moving DEF Taking, Setup
  <1>5. Tasks'
    <2>1. a # Main
      BY <1>2, Actor DEF IInv, Tasks, Starting, Setup
    <2>2. CASE a = Signals
      BY <1>1, <1>2, <1>4, <2>2, Actor
      DEF IInv, Moves, Frame, Tasks, Starting, Stopping, Ending, Setup
    <2>3. CASE a \in Admins
      BY <1>1, <1>2, <1>4, <2>3, Actor DEF IInv, Moves, Frame, Tasks, Starting, Stopping, Setup
    <2>4. QED
      BY <2>1, <2>2, <2>3, Actor
  <1>6. Shut'
    BY <1>1, <1>2, <1>3, <1>4, Actor
    DEF Moves, Frame, Sole, IInv, Shut, Over, Starting, Stopping, Ending, State, Becomes, Taking,
        bindVars
  <1>7. Objects'
    <2>1. \A o \in Objs \ {reg} : srv'[o] = srv[o]
      BY <1>1 DEF Becomes
    <2>2. \A o \in Objs : State(o)' \in {"starting", "running", "stopping"} => o = reg
      BY <2>1 DEF IInv, Objects, State
    <2>3. \A o \in Objs : o > added => srv'[o] = [state |-> "stopped", proc |-> FALSE]
      <3>1. reg \in 0 .. added /\ added \in Nat /\ \A o \in Objs : o > added => o # reg
        BY Known DEF IInv
      <3>2. QED
        BY <2>1, <3>1 DEF IInv, Objects
    <2>4. QED
      BY <1>1, <1>2, <1>4, <2>2, <2>3, Known DEF Moves, Sole, IInv, Objects, State, Becomes, Taking
  <1>8. Processes'
    BY <1>1, <1>2, <1>4, Known DEF Moves, Sole, IInv, Processes, Objects, State, Running, Becomes
  <1>9. News'
    BY <1>1, <1>2, <1>4, Known
    DEF Moves, Kept, Sole, IInv, News, Processes, Objects, State, Running, Becomes
  <1>10. Boot'
    BY <1>1, <1>2, <1>4, Known, Actor DEF Moves, Frame, IInv, Boot, State, Becomes
  <1>11. Bound'
    BY <1>1, <1>2, <1>4, Known, Actor
    DEF Moves, Frame, Sole, IInv, Bound, Objects, State, Becomes, Running, bindVars
  <1>12. QED
    BY <1>4, <1>5, <1>6, <1>7, <1>8, <1>9, <1>10, <1>11 DEF IInv, Moves, Kept

LEMMA StopPublishKeeps ==
  ASSUME IInv, TInv', NEW a \in Operators, StopPublish(a)
  PROVE  IInv'
  <1>1. /\ Others(a) /\ act'[a].pc = "fireStopped" /\ act'[a].kind = act[a].kind
        /\ act'[a].obj = act[a].obj
        /\ Becomes(reg, "stopped", FALSE)
        /\ UNCHANGED <<daemon, reg, added, blocked, service, stopFailed, queue, closed, bindVars>>
    BY Actor, GotoMoves, ServerMoves, Known
    DEF StopPublish, IInv, Objects, States, Pcs, Stopping
  <1>2. /\ act[a].pc = "halted" /\ act[a].obj = reg /\ reg # 0 /\ reg \in Objs
        /\ State(reg) = "stopping"
    BY Known DEF StopPublish, IInv, Objects
  <1>3. ~Over
    BY <1>2, NotOver DEF Taking
  <1>4. Moves(a)
    BY <1>1, <1>2, Moving DEF Taking, Setup
  <1>5. Tasks'
    BY <1>1, <1>2, <1>4, Actor
    DEF Moves, Frame, IInv, Tasks, Starting, Stopping, Ending, Setup
  <1>6. Shut'
    BY <1>1, <1>2, <1>3, <1>4, Actor
    DEF Moves, Frame, Sole, IInv, Shut, Over, Starting, Stopping, Ending, State, Becomes, Taking,
        bindVars
  <1>7. Objects'
    <2>1. \A o \in Objs \ {reg} : srv'[o] = srv[o]
      BY <1>1 DEF Becomes
    <2>2. \A o \in Objs : State(o)' \in {"starting", "running", "stopping"} => o = reg
      BY <2>1 DEF IInv, Objects, State
    <2>3. \A o \in Objs : o > added => srv'[o] = [state |-> "stopped", proc |-> FALSE]
      <3>1. reg \in 0 .. added /\ added \in Nat /\ \A o \in Objs : o > added => o # reg
        BY Known DEF IInv
      <3>2. QED
        BY <2>1, <3>1 DEF IInv, Objects
    <2>4. QED
      BY <1>1, <1>2, <1>4, <2>2, <2>3, Known DEF Moves, Sole, IInv, Objects, State, Becomes, Taking
  <1>8. Processes'
    BY <1>1, <1>2, <1>4, Known DEF Moves, Sole, IInv, Processes, Objects, State, Running, Becomes
  <1>9. News'
    BY <1>1, <1>2, <1>4, Known
    DEF Moves, Kept, Sole, IInv, News, Processes, Objects, State, Running, Becomes
  <1>10. Boot'
    BY <1>1, <1>2, <1>4, Known, Actor DEF Moves, Frame, IInv, Boot, State, Becomes
  <1>11. Bound'
    BY <1>1, <1>2, <1>4, Known, Actor
    DEF Moves, Frame, Sole, IInv, Bound, Objects, State, Becomes, Running, bindVars
  <1>12. QED
    BY <1>4, <1>5, <1>6, <1>7, <1>8, <1>9, <1>10, <1>11 DEF IInv, Moves, Kept

---------------------------------------------------------------------------
(* fireEvent: an event is sent at once or its sender waits, for the        *)
(* registry is closed only after the last operation.                       *)
LEMMA Sends ==
  ASSUME IInv, NEW a \in Operators, NEW type \in {"started", "stopped"}, Fire(a, type),
         act[a].pc \in {"fireStarted", "fireStopped"}
  PROVE  /\ queue' = Append(queue, [type |-> type, obj |-> act[a].obj])
         /\ act[a].obj \in 1 .. added /\ [type |-> type, obj |-> act[a].obj] \in Event
         /\ UNCHANGED <<daemon, regVars, closed, bindVars, raced>>
  <1>1. act[a].obj \in 1 .. added /\ act[a].obj \in Objs
    BY Known DEF IInv, Objects
  <1>2. ~closed
    BY NotOver DEF IInv, Shut, Over, Taking
  <1>3. QED
    BY <1>1, <1>2 DEF Fire, Event

LEMMA FireKeeps ==
  ASSUME IInv, TInv', NEW a \in Operators, FireStarted(a) \/ FireStopped(a)
  PROVE  IInv'
  <1> DEFINE type == IF act[a].pc = "fireStarted" THEN "started" ELSE "stopped"
             e == [type |-> type, obj |-> act[a].obj]
  <1>1. /\ Others(a)
        /\ \/ /\ act[a].pc = "fireStarted" /\ act[a].obj = reg /\ reg # 0 /\ State(reg) = "running"
              /\ \/ act'[a].pc = "list" /\ act[a].kind = "boot" /\ act'[a].kind = "boot"
                 \/ act'[a].pc = "idle" /\ act[a].kind # "boot" /\ act'[a].kind = "none"
           \/ /\ act[a].pc = "fireStopped" /\ (reg # 0 => State(reg) = "stopped")
              /\ \/ act'[a].pc = "close" /\ act[a].kind = "shutdown" /\ act'[a].kind = "shutdown"
                 \/ /\ act'[a].pc = "remove" /\ act[a].kind \in {"drop", "remove", "update"}
                    /\ act'[a].kind = act[a].kind
                 \/ act'[a].pc = "start" /\ act[a].kind = "restart" /\ act'[a].kind = "restart"
                 \/ act'[a].pc = "idle" /\ act[a].kind # "shutdown" /\ act'[a].kind = "none"
    BY StartReturned, StopReturned DEF FireStarted, FireStopped, IInv, TInv, Objects
  <1>2. /\ queue' = Append(queue, e) /\ e \in Event
        /\ act[a].obj \in 1 .. added
        /\ UNCHANGED <<daemon, regVars, closed, bindVars, raced>>
    BY Sends DEF FireStarted, FireStopped
  <1>3. e.type = type /\ e.obj = act[a].obj
    OBVIOUS
  <1> HIDE DEF e
  <1>4. Frame(a) /\ \A b \in Operators \ {a} : act[b].pc \notin Taking
    BY <1>1, Actor DEF Others, Frame, IInv, Alone, Taking
  <1>5. Sole(a) /\ Sole(a)' /\ Alone'
    <2>1. \A b \in Operators \ {a} : act'[b].pc \notin Taking
      BY <1>4 DEF Frame
    <2>2. QED
      BY <1>4, <2>1, SoleIs DEF At, Sole, Taking, Alone
  <1>6. /\ queue' # <<>> /\ Len(queue) \in Nat
        /\ Len(queue') = Len(queue) + 1 /\ queue'[Len(queue')] = e
        /\ \A i \in 1 .. Len(queue) : queue'[i] = queue[i]
        /\ queue = <<>> <=> Len(queue) = 0
    BY <1>2, Appended DEF IInv, TInv
  <1>7. Handled' = Handled
    BY <1>2, <1>4 DEF Handled, Frame, bindVars
  <1>8. Last' = IF act[a].pc = "fireStarted" THEN reg ELSE 0
    BY <1>1, <1>3, <1>6 DEF Last, Says
  <1>9. ~Over
    BY <1>1, NotOver DEF Taking
  <1>10. Tasks'
    <2>1. CASE a = Signals
      BY <1>1, <1>4, <2>1, Actor DEF IInv, Frame, Tasks, Starting, Stopping, Ending, Setup
    <2>2. CASE a = Main
      BY <1>1, <1>4, <2>2, Actor DEF IInv, Frame, Tasks, Starting, Stopping, Ending, Setup
    <2>3. CASE a \in Admins
      BY <1>1, <1>4, <2>3, Actor DEF IInv, Frame, Tasks, Starting, Stopping, Ending, Setup
    <2>4. QED
      BY <2>1, <2>2, <2>3, Actor
  <1>11. Shut'
    BY <1>1, <1>2, <1>4, <1>5, <1>9, Actor
    DEF IInv, Shut, Over, Frame, Sole, Starting, Stopping, Ending, State, Taking, regVars, bindVars
  <1>12. Objects'
    BY <1>1, <1>2, <1>4, <1>5 DEF IInv, Frame, Sole, Objects, State, Taking, regVars
  <1>13. Processes'
    BY <1>1, <1>2, <1>5 DEF IInv, Sole, Processes, Running, State, regVars
  <1>14. News'
    BY <1>1, <1>2, <1>5, <1>8 DEF IInv, Sole, News, Running, State, regVars
  <1>15. act[a].pc = "fireStarted" =>
           /\ queue # <<>> => queue[Len(queue)].type = "stopped"
           /\ queue = <<>> => Handled = 0
    <2>1. act[a].pc = "fireStarted" => Last = 0
      BY <1>5 DEF IInv, News, Sole
    <2>2. queue # <<>> => /\ queue[Len(queue)].type \in {"started", "stopped"}
                          /\ queue[Len(queue)].obj # 0
      <3>1. queue # <<>> => Len(queue) \in 1 .. Len(queue)
        BY <1>6
      <3>2. QED
        BY <3>1, Known DEF IInv, Event
    <2>3. QED
      BY <2>1, <2>2 DEF Last, Says
  <1>16. Alternate'
    <2>1. ASSUME NEW i \in 2 .. Len(queue'), queue'[i].type = "started"
          PROVE  queue'[i - 1].type = "stopped"
      <3>1. CASE i <= Len(queue)
        BY <1>6, <2>1, <3>1 DEF IInv, Alternate
      <3>2. CASE i = Len(queue) + 1
        BY <1>1, <1>3, <1>6, <1>15, <2>1, <3>2
      <3>3. QED
        BY <1>6, <3>1, <3>2
    <2>2. queue'[1].type = "started" => Handled = 0
      BY <1>1, <1>3, <1>6, <1>15 DEF IInv, Alternate
    <2>3. QED
      BY <1>7, <2>1, <2>2 DEF Alternate
  <1>17. Owed'
    <2>1. Owed
      BY <1>9 DEF IInv, Binding, Over
    <2>2. CASE act[a].pc = "fireStopped"
      BY <1>3, <1>6, <2>2 DEF Owed
    <2>3. CASE act[a].pc = "fireStarted"
      <3>1. CASE \E b \in Operators : act[b].pc = "fireStarted" /\ act[b].obj = listener
        <4>1. e.obj = listener /\ e.type = "started"
          BY <1>3, <1>4, <2>3, <3>1 DEF Taking
        <4>2. CASE queue = <<>>
          BY <1>2, <1>6, <4>1, <4>2 DEF Owed, bindVars
        <4>3. CASE queue # <<>>
          <5>1. Len(queue) \in 1 .. Len(queue') /\ queue'[Len(queue)].type = "stopped"
            BY <1>6, <1>15, <2>3, <4>3
          <5>2. QED
            BY <5>1 DEF Owed
        <4>4. QED
          BY <4>2, <4>3
      <3>2. CASE ~\E b \in Operators : act[b].pc = "fireStarted" /\ act[b].obj = listener
        BY <1>2, <1>4, <1>6, <1>7, <2>1, <3>2 DEF Owed, Frame, bindVars
      <3>3. QED
        BY <3>1, <3>2
    <2>4. QED
      BY <1>1, <2>2, <2>3
  <1>18. Binding'
    <2>1. act[Main].pc # "bind" <=> act'[Main].pc # "bind"
      BY <1>1, <1>4 DEF Frame
    <2>2. QED
      BY <1>2, <1>4, <1>17, <2>1 DEF IInv, Binding, Frame, bindVars
  <1>19. Boot'
    BY <1>1, <1>2, <1>4, Actor DEF IInv, Boot, Frame, State, regVars
  <1>20. Bound'
    BY <1>6 DEF Bound
  <1>21. QED
    BY <1>5, <1>10, <1>11, <1>12, <1>13, <1>14, <1>16, <1>18, <1>19, <1>20 DEF IInv

---------------------------------------------------------------------------
(* The handler leaves the operations alone, and it changes nothing of what *)
(* it has been told.                                                       *)
LEMMA HandlerRests ==
  ASSUME IInv, Others(Handler), UNCHANGED <<daemon, regVars, closed>>,
         daemon # "stopped", Last' = Last
  PROVE  /\ Alone' /\ Shut' /\ Objects' /\ Processes' /\ News' /\ Boot' /\ Alike
         /\ act'[Handler].pc \in {"idle", "unwork", "teardown"} \cup Working => Tasks'
         /\ \A a \in Operators : act'[a] = act[a]
  <1>1. \A a \in Operators : act'[a] = act[a]
    BY Actor DEF Others
  <1>2. act'[Main] = act[Main] /\ act'[Signals] = act[Signals] /\ Alike
    BY <1>1, Actor, AlikeIs
  <1>3. Alone' /\ Boot'
    BY <1>1, <1>2 DEF IInv, Alone, Boot, State, regVars
  <1>4. Shut'
    BY <1>1, <1>2, Actor DEF IInv, Shut, Over, Alike, State, regVars
  <1>5. Objects'
    BY <1>1, <1>2 DEF IInv, Objects, Alike, State, regVars
  <1>6. Processes'
    BY <1>2 DEF IInv, Processes, Alike, Running, State, regVars
  <1>7. News'
    BY <1>2 DEF IInv, News, Alike, Running, State, regVars
  <1>8. act'[Handler].pc \in {"idle", "unwork", "teardown"} \cup Working => Tasks'
    BY <1>1, <1>2, Actor DEF IInv, Tasks
  <1>9. QED
    BY <1>1, <1>2, <1>3, <1>4, <1>5, <1>6, <1>7, <1>8

LEMMA DeliverKeeps ==
  ASSUME IInv, TInv', Deliver
  PROVE  IInv'
  <1>1. /\ queue # <<>> /\ Len(queue) \in Nat \ {0} /\ queue[1] \in Event
        /\ queue[1].obj \in 1 .. added
        /\ Len(queue') = Len(queue) - 1 /\ (queue' = <<>> <=> Len(queue') = 0)
        /\ \A i \in 1 .. Len(queue') : queue'[i] = queue[i + 1]
        /\ act[Handler].pc = "idle" /\ Head(queue) = queue[1]
        /\ UNCHANGED <<daemon, regVars, closed, bindVars, raced>>
    <2>1. /\ queue # <<>> /\ queue' = Tail(queue) /\ act[Handler].pc = "idle"
          /\ UNCHANGED <<daemon, regVars, closed, bindVars, raced>>
      BY DEF Deliver
    <2>2. queue \in Seq(Event)
      BY Known DEF IInv
    <2>3. /\ Len(queue) \in Nat \ {0} /\ Head(queue) = queue[1] /\ Len(queue') = Len(queue) - 1
          /\ \A i \in 1 .. Len(queue') : queue'[i] = queue[i + 1]
          /\ queue' \in Seq(Event)
      BY <2>1, <2>2
    <2>4. queue' = <<>> <=> Len(queue') = 0
      BY <2>3
    <2>5. 1 \in 1 .. Len(queue)
      BY <2>3
    <2>6. QED
      BY <2>1, <2>3, <2>4, <2>5, Known DEF IInv
  <1>2. /\ Others(Handler)
        /\ act'[Handler].pc = IF queue[1].type = "started" THEN "check" ELSE "unwork"
        /\ act'[Handler].obj = queue[1].obj
    <2>1. act \in [Actors -> Act] /\ act' \in [Actors -> Act]
      BY DEF IInv, TInv, Typed
    <2>2. QED
      BY <1>1, <2>1, Actor DEF Deliver, Others
  <1>3. Handled' = Says(queue[1]) /\ Handled = worker
    BY <1>1, <1>2 DEF Handled, Says, Working, Setup
  <1>4. Last' = Last
    <2>1. CASE Len(queue) = 1
      BY <1>1, <1>3, <2>1 DEF Last
    <2>2. CASE Len(queue) > 1
      <3> DEFINE n == Len(queue')
      <3>1. n \in 1 .. n /\ n + 1 = Len(queue) /\ queue' # <<>>
        BY <1>1, <2>2
      <3>2. queue'[n] = queue[n + 1]
        BY <1>1, <3>1
      <3>3. QED
        BY <1>1, <3>1, <3>2 DEF Last
    <2>3. QED
      BY <1>1, <2>1, <2>2
  <1>5. daemon # "stopped"
    BY <1>1 DEF IInv, Shut
  <1>6. /\ Alone' /\ Shut' /\ Objects' /\ Processes' /\ News' /\ Boot' /\ Tasks'
        /\ \A a \in Operators : act'[a] = act[a]
    BY <1>1, <1>2, <1>4, <1>5, HandlerRests DEF Working, Setup
  <1>7. Alternate'
    <2>1. ASSUME NEW i \in 2 .. Len(queue'), queue'[i].type = "started"
          PROVE  queue'[i - 1].type = "stopped"
      <3>1. /\ i \in 1 .. Len(queue') /\ i - 1 \in 1 .. Len(queue') /\ (i - 1) + 1 = i
            /\ i + 1 \in 2 .. Len(queue) /\ (i + 1) - 1 = i
        BY <1>1
      <3>2. queue'[i] = queue[i + 1] /\ queue'[i - 1] = queue[i]
        <4> DEFINE k == i - 1
        <4>1. queue'[k] = queue[k + 1]
          BY <1>1, <3>1
        <4>2. QED
          BY <1>1, <3>1, <4>1
      <3>3. queue[(i + 1) - 1].type = "stopped"
        BY <2>1, <3>1, <3>2 DEF IInv, Alternate
      <3>4. QED
        BY <3>1, <3>2, <3>3
    <2>2. ASSUME queue' # <<>>, queue'[1].type = "started" PROVE Handled' = 0
      <3>1. 2 \in 2 .. Len(queue) /\ queue[2].type = "started"
        BY <1>1, <2>2
      <3>2. queue[2 - 1].type = "stopped"
        BY <3>1 DEF IInv, Alternate
      <3>3. QED
        BY <1>3, <3>2 DEF Says
    <2>3. QED
      BY <2>1, <2>2 DEF Alternate
  <1>8. Owed'
    <2>1. Owed /\ (queue[1].type = "started" => Handled = 0)
      BY <1>1, <1>5 DEF IInv, Binding, Alternate
    <2>2. CASE queue[1].type = "stopped"
      BY <1>2, <2>2 DEF Owed
    <2>3. CASE queue[1].type = "started"
      <3>1. CASE \E i \in 1 .. Len(queue) : queue[i].type = "stopped"
        <4>1. PICK i \in 1 .. Len(queue) : queue[i].type = "stopped"
          BY <3>1
        <4>2. i - 1 \in 1 .. Len(queue') /\ queue'[i - 1].type = "stopped"
          BY <1>1, <2>3, <4>1
        <4>3. QED
          BY <4>2 DEF Owed
      <3>2. CASE listener \in {0, Handled} \/ queue[1].obj = listener
        BY <1>1, <1>3, <2>1, <2>3, <3>2 DEF Owed, Says, bindVars
      <3>3. CASE \E a \in Operators : act[a].pc = "fireStarted" /\ act[a].obj = listener
        BY <1>1, <1>6, <3>3 DEF Owed, bindVars
      <3>4. QED
        BY <1>1, <2>1, <3>1, <3>2, <3>3 DEF Owed
    <2>4. QED
      BY <1>1, <2>2, <2>3 DEF Event
  <1>9. Binding'
    <2>1. queue[1].type = "started" => worker = 0
      BY <1>1, <1>3 DEF IInv, Alternate
    <2>2. act'[Main] = act[Main]
      BY <1>6, Actor
    <2>3. QED
      BY <1>1, <1>2, <1>8, <2>1, <2>2 DEF IInv, Binding, Working, Setup, bindVars
  <1>10. Bound'
    BY <1>2 DEF Bound
  <1>11. QED
    BY <1>6, <1>7, <1>9, <1>10 DEF IInv

(* The steps of the handler that take no event.                            *)
LEMMA HandlerSteps ==
  ASSUME IInv, Others(Handler), UNCHANGED <<daemon, regVars, queue, closed>>,
         act[Handler].pc # "idle", Handled' = Handled,
         act'[Handler].pc \in {"idle", "unwork", "teardown"} \cup Working
  PROVE  /\ Alone' /\ Shut' /\ Objects' /\ Processes' /\ News' /\ Boot' /\ Alternate' /\ Tasks'
         /\ act'[Main] = act[Main] /\ Last' = Last /\ daemon # "stopped" /\ Alike
         /\ \A a \in Operators : act'[a] = act[a]
         /\ (Running' <=> Running)
  <1>1. Last' = Last
    BY DEF Last
  <1>2. daemon # "stopped"
    BY DEF IInv, Shut
  <1>3. /\ Alone' /\ Shut' /\ Objects' /\ Processes' /\ News' /\ Boot' /\ Tasks' /\ Alike
        /\ \A a \in Operators : act'[a] = act[a]
    BY <1>1, <1>2, HandlerRests
  <1>4. Alternate'
    BY DEF IInv, Alternate
  <1>5. QED
    BY <1>1, <1>2, <1>3, <1>4, Actor DEF Running, State, regVars

(* When the handler has done its setup of a server that runs, the server   *)
(* is bound: it ran when the setup looked, its process was there, and the  *)
(* other setup, if that has it, is Main's.                                 *)
LEMMA HandlerSetupKeeps ==
  ASSUME IInv, TInv', \/ SetupCheck(Handler) \/ SetupLook(Handler)
                      \/ SetupClaim(Handler) \/ AddStreamable(Handler)
  PROVE  IInv'
  <1>1. act[Handler].pc \in Setup
    BY DEF SetupCheck, SetupLook, SetupClaim, AddStreamable, Setup
  <1>2. \E pc \in Working : Goto(Handler, pc)
    BY DEF SetupCheck, SetupLook, SetupClaim, AddStreamable, SetupReturns, Setup, Working
  <1>3. PICK pc \in Working : Goto(Handler, pc)
    BY <1>2
  <1>4. /\ Others(Handler) /\ act'[Handler].pc = pc /\ act'[Handler].obj = act[Handler].obj
        /\ act[Handler].pc \in Working /\ act[Handler].pc # "idle"
    BY <1>1, <1>3, Actor, GotoMoves DEF IInv, TInv, Pcs, Setup, Working
  <1>5. Handled' = Handled /\ Handled = act[Handler].obj /\ Handled \in 1 .. added
    BY <1>4, Known DEF Handled, IInv
  <1>6. UNCHANGED <<daemon, regVars, queue, closed, worker, raced>>
    BY DEF SetupCheck, SetupLook, SetupClaim, AddStreamable, bindVars
  <1>7. /\ Alone' /\ Shut' /\ Objects' /\ Processes' /\ News' /\ Boot' /\ Alternate' /\ Tasks'
        /\ act'[Main] = act[Main] /\ Last' = Last /\ daemon # "stopped" /\ Alike
        /\ \A a \in Operators : act'[a] = act[a]
        /\ (Running' <=> Running)
    BY <1>4, <1>5, <1>6, HandlerSteps
  <1>8. worker = 0 /\ (inProgress <=> act[Main].pc = "bind" \/ act[Handler].pc = "bind")
        /\ ~(act[Main].pc = "bind" /\ act[Handler].pc = "bind")
    BY <1>4 DEF IInv, Binding
  <1>9. listener' \in {listener, Handled} => Owed'
    <2>1. Owed
      BY <1>7 DEF IInv, Binding
    <2>2. act[Handler].pc \notin {"unwork", "teardown"}
      BY <1>1 DEF Setup
    <2>3. QED
      BY <1>5, <1>6, <1>7, <2>1, <2>2 DEF Owed
  (* What Bound asks for is a server that runs and that the handler sets up. *)
  <1>10. ASSUME Running, ~At({"fireStarted"}), queue = <<>>
         PROVE  /\ act[Handler].obj = reg /\ srv[reg].proc = Managed /\ State(reg) = "running"
                /\ listener \in {0, reg}
    <2>1. Handled = reg
      BY <1>10 DEF IInv, News, Last
    <2>2. Len(queue) = 0
      BY <1>10, Known DEF IInv
    <2>3. listener \in {0, Handled}
      BY <1>1, <1>7, <1>10, <2>2 DEF IInv, Binding, Owed, At, Setup
    <2>4. QED
      BY <1>5, <1>10, <2>1, <2>3 DEF IInv, Processes, Running
  <1>11. ASSUME listener' \in {listener, Handled},
                inProgress' <=> act[Main].pc = "bind" \/ pc = "bind",
                ~(act[Main].pc = "bind" /\ pc = "bind"),
                Running /\ ~At({"fireStarted"}) /\ queue = <<>> /\ pc = "work"
                  => listener' = reg \/ act[Main].pc = "bind"
         PROVE  IInv'
    <2>1. Binding'
      BY <1>4, <1>6, <1>7, <1>8, <1>9, <1>11 DEF Binding
    <2>2. Bound'
      BY <1>4, <1>6, <1>7, <1>11 DEF Bound, Alike, Working, Setup, regVars
    <2>3. QED
      BY <1>7, <2>1, <2>2 DEF IInv
  <1>12. CASE SetupCheck(Handler)
    <2>1. /\ pc \in {"look", "work"} /\ act[Handler].pc = "check" /\ UNCHANGED bindVars
          /\ pc = "work" => State(act[Handler].obj) # "running"
      BY <1>3, <1>4, <1>12, GotoMoves, Actor DEF SetupCheck, SetupReturns, IInv, TInv, Pcs, Working, Setup
    <2>2. QED
      BY <1>8, <1>10, <1>11, <2>1 DEF bindVars
  <1>13. CASE SetupLook(Handler)
    <2>1. /\ pc \in {"claim", "work"} /\ act[Handler].pc = "look" /\ UNCHANGED bindVars
          /\ pc = "work" => listener # 0
      BY <1>3, <1>4, <1>13, GotoMoves, Actor DEF SetupLook, SetupReturns, IInv, TInv, Pcs, Working, Setup
    <2>2. QED
      BY <1>8, <1>10, <1>11, <2>1 DEF bindVars
  <1>14. CASE SetupClaim(Handler)
    <2>1. /\ act[Handler].pc = "claim" /\ listener' = listener
          /\ \/ /\ pc = "work" /\ inProgress' = inProgress
                /\ inProgress \/ (Managed /\ ~srv[act[Handler].obj].proc)
             \/ pc = "bind" /\ ~inProgress /\ inProgress' = TRUE
      BY <1>3, <1>4, <1>14, GotoMoves, Actor DEF SetupClaim, SetupReturns, IInv, TInv, Pcs, Working, Setup
    <2>2. QED
      BY <1>8, <1>10, <1>11, <2>1
  <1>15. CASE AddStreamable(Handler)
    <2>1. /\ act[Handler].pc = "bind" /\ pc = "work" /\ inProgress' = FALSE
          /\ listener' = IF listener = 0 THEN act[Handler].obj ELSE listener
      BY <1>3, <1>4, <1>15, GotoMoves, Actor DEF AddStreamable, SetupReturns, IInv, TInv, Pcs, Working, Setup
    <2>2. listener' \in {listener, Handled}
      BY <1>5, <2>1
    <2>3. Running /\ ~At({"fireStarted"}) /\ queue = <<>> => listener' = reg
      BY <1>5, <1>10, <2>1
    <2>4. QED
      BY <1>8, <1>11, <2>1, <2>2, <2>3
  <1>16. QED
    BY <1>12, <1>13, <1>14, <1>15

LEMMA WorkerKeeps ==
  ASSUME IInv, TInv', StartProbeWorker \/ RemoveProbeWorker \/ TeardownProxy
  PROVE  IInv'
  <1>1. /\ Others(Handler) /\ UNCHANGED <<daemon, regVars, queue, closed, inProgress, raced>>
        /\ \/ /\ act[Handler].pc = "work" /\ act'[Handler].pc = "idle"
              /\ worker' = act[Handler].obj /\ listener' = listener
           \/ /\ act[Handler].pc = "unwork" /\ act'[Handler].pc = "teardown"
              /\ worker' = 0 /\ listener' = listener
           \/ /\ act[Handler].pc = "teardown" /\ act'[Handler].pc = "idle"
              /\ worker' = worker /\ listener' = 0
    BY Actor, GotoMoves, IdleMoves
    DEF StartProbeWorker, RemoveProbeWorker, TeardownProxy, IInv, TInv, Pcs
  <1>2. act[Handler].pc = "teardown" => worker = 0
    BY DEF IInv, Binding
  <1>3. Handled' = Handled
    BY <1>1, <1>2 DEF Handled, Working, Setup
  <1>4. /\ Alone' /\ Shut' /\ Objects' /\ Processes' /\ News' /\ Boot' /\ Alternate' /\ Tasks'
        /\ act'[Main] = act[Main] /\ Last' = Last /\ daemon # "stopped" /\ Alike
        /\ \A a \in Operators : act'[a] = act[a]
        /\ (Running' <=> Running)
    BY <1>1, <1>3, HandlerSteps
  <1>5. Owed'
    <2>1. Owed
      BY <1>4 DEF IInv, Binding
    <2>2. QED
      BY <1>1, <1>3, <1>4, <2>1 DEF Owed
  <1>6. Binding'
    BY <1>1, <1>2, <1>4, <1>5 DEF IInv, Binding, Working, Setup
  <1>7. Bound'
    <2>1. CASE act[Handler].pc = "work"
      BY <1>1, <1>4, <2>1 DEF IInv, Bound, Alike, regVars
    <2>2. CASE act[Handler].pc = "unwork"
      BY <1>1, <2>2 DEF Bound
    <2>3. CASE act[Handler].pc = "teardown"
      <3>1. queue' = <<>> => Last' = 0
        BY <1>1, <1>2, <2>3 DEF Last, Handled, Working, Setup
      <3>2. QED
        BY <1>4, <3>1 DEF News, Bound, Running
    <2>4. QED
      BY <1>1, <2>1, <2>2, <2>3
  <1>8. QED
    BY <1>4, <1>6, <1>7 DEF IInv

---------------------------------------------------------------------------
(* Daemon.Start sets up the listener itself, of a server that still runs   *)
(* when it binds it.                                                       *)
LEMMA MainSetupKeeps ==
  ASSUME IInv, TInv', SetupCheck(Main) \/ SetupLook(Main) \/ SetupClaim(Main) \/ AddStreamable(Main)
  PROVE  IInv'
  <1>1. /\ act[Main].pc \in Setup /\ Main \in Operators /\ Main # Handler /\ Main # Signals
        /\ act[Main].kind = "boot"
    BY Actor, ConstantsAssumption
    DEF SetupCheck, SetupLook, SetupClaim, AddStreamable, Setup, IInv, Tasks
  <1>2. /\ Others(Main)
        /\ UNCHANGED <<daemon, regVars, queue, closed, worker, raced>>
        /\ \/ /\ act[Main].pc = "check" /\ act'[Main].pc \in {"look", "idle"}
              /\ act'[Main].pc = "look" => State(act[Main].obj) = "running"
              /\ UNCHANGED <<listener, inProgress>>
           \/ /\ act[Main].pc = "look" /\ act'[Main].pc \in {"claim", "idle"}
              /\ act'[Main].pc = "idle" => listener # 0
              /\ UNCHANGED <<listener, inProgress>>
           \/ /\ act[Main].pc = "claim" /\ act'[Main].pc = "idle"
              /\ UNCHANGED <<listener, inProgress>>
           \/ /\ act[Main].pc = "claim" /\ act'[Main].pc = "bind"
              /\ ~inProgress /\ inProgress' = TRUE /\ listener' = listener
           \/ /\ act[Main].pc = "bind" /\ act'[Main].pc = "idle" /\ inProgress' = FALSE
              /\ listener' = IF listener = 0 THEN act[Main].obj ELSE listener
        /\ act'[Main].pc # "idle" => act'[Main].kind = "boot" /\ act'[Main].obj = act[Main].obj
        /\ act'[Main].pc = "idle" => act'[Main].kind = "none"
    BY <1>1, Actor, GotoMoves, IdleMoves
    DEF SetupCheck, SetupLook, SetupClaim, AddStreamable, SetupReturns, IInv, TInv, Pcs,
        Working, Setup, bindVars
  <1>3. act[Main].pc \notin Taking /\ act'[Main].pc \notin Taking
    BY <1>1, <1>2 DEF Setup, Taking
  <1>4. Frame(Main) /\ Alike
    <2>1. Frame(Main)
      BY <1>2, Actor DEF Others, Frame
    <2>2. QED
      BY <1>3, <2>1, AlikeIs DEF Frame
  <1>5. Handled' = Handled /\ Last' = Last
    BY <1>2, <1>4 DEF Handled, Last, Frame
  <1>6. Alone'
    BY <1>3, <1>4 DEF IInv, Alone, Frame
  <1>7. Tasks'
    BY <1>1, <1>2, <1>4, Actor DEF IInv, Tasks, Frame, Setup
  <1>8. Objects'
    BY <1>2, <1>3, <1>4 DEF IInv, Objects, Frame, Alike, State, Taking, regVars
  <1>9. Processes'
    BY <1>2, <1>4 DEF IInv, Processes, Alike, State, Running, regVars
  <1>10. News'
    BY <1>2, <1>4, <1>5 DEF IInv, News, Alike, State, Running, regVars
  <1>11. Alternate'
    BY <1>2, <1>5 DEF IInv, Alternate
  <1>12. act[Main].pc \in {"look", "claim", "bind"} =>
           /\ act[Main].obj = reg /\ reg # 0 /\ Running /\ daemon # "stopped"
           /\ ~At({"fireStarted"}) => Last = reg
    BY DEF IInv, Boot, Running, Shut, Over, News
  <1>13. Boot'
    <2>1. act'[Main].pc \in {"look", "claim", "bind"} /\ act[Main].pc = "check"
            => act[Main].obj = reg /\ reg # 0 /\ State(reg) = "running"
      <3>1. SUFFICES ASSUME act'[Main].pc \in {"look", "claim", "bind"}, act[Main].pc = "check"
                     PROVE  act[Main].obj = reg /\ reg # 0 /\ State(reg) = "running"
        OBVIOUS
      <3>2. State(act[Main].obj) = "running"
        BY <1>2, <3>1
      <3>3. act[Main].obj \in Objs
        BY <1>1, <3>1, Known, Actor DEF IInv, TInv, Typed, Act, Boot
      <3>4. QED
        BY <3>2, <3>3, Known DEF IInv, Objects
    <2>2. QED
      BY <1>2, <1>12, <2>1 DEF Boot, Running, State, regVars
  <1>14. Shut'
    <2>1. daemon = "stopped" => UNCHANGED listener
      BY <1>1, <1>2, <1>12
    <2>2. QED
      BY <1>2, <1>4, <2>1, Actor DEF IInv, Shut, Over, Frame, Alike, State, regVars
  <1>15. daemon # "stopped" => Owed'
    <2>1. SUFFICES ASSUME daemon # "stopped" PROVE Owed'
      OBVIOUS
    <2>2. Owed /\ act[Main].pc # "fireStarted"
      BY <1>1, <2>1 DEF IInv, Binding, Setup
    <2>3. CASE listener' = listener
      BY <1>1, <1>2, <1>4, <1>5, <2>2, <2>3 DEF Owed, Frame
    <2>4. CASE listener' # listener
      <3>1. act[Main].pc = "bind" /\ listener' = reg /\ Running /\ reg # 0
        BY <1>2, <1>12, <2>4
      <3>2. CASE At({"fireStarted"})
        <4>1. PICK b \in Operators : act[b].pc = "fireStarted"
          BY <3>2 DEF At
        <4>2. act[b].obj = reg /\ act'[b] = act[b]
          BY <1>1, <1>4, <3>1, <4>1 DEF IInv, Objects, Frame
        <4>3. QED
          BY <3>1, <4>1, <4>2 DEF Owed
      <3>3. CASE ~At({"fireStarted"})
        <4>1. Last = reg
          BY <1>12, <3>1, <3>3
        <4>2. CASE queue = <<>>
          BY <1>5, <3>1, <4>1, <4>2 DEF Owed, Last
        <4>3. CASE queue # <<>>
          <5>1. /\ queue[Len(queue)].type = "started" /\ queue[Len(queue)].obj = reg
                /\ Len(queue) \in Nat \ {0}
            BY <3>1, <4>1, <4>3, Known DEF Last, Says, IInv
          <5>2. CASE Len(queue) = 1
            BY <1>2, <3>1, <4>3, <5>1, <5>2 DEF Owed
          <5>3. CASE Len(queue) # 1
            <6>1. Len(queue) \in 2 .. Len(queue) /\ Len(queue) - 1 \in 1 .. Len(queue)
              BY <5>1, <5>3
            <6>2. queue[Len(queue) - 1].type = "stopped"
              BY <5>1, <6>1 DEF IInv, Alternate
            <6>3. QED
              BY <1>2, <6>1, <6>2 DEF Owed
          <5>4. QED
            BY <5>2, <5>3
        <4>4. QED
          BY <4>2, <4>3
      <3>4. QED
        BY <3>2, <3>3
    <2>5. QED
      BY <2>3, <2>4
  <1>16. Binding'
    BY <1>1, <1>2, <1>4, <1>15 DEF IInv, Binding, Frame
  <1>17. Bound'
    <2>1. SUFFICES ASSUME daemon = "running", Running, ~At({"fireStarted"}), queue = <<>>,
                          act[Handler].pc \in {"idle", "work"}
                   PROVE  listener' = reg \/ act'[Main].pc = "bind"
      BY <1>2, <1>4 DEF Bound, Running, State, Alike, Frame, regVars
    <2>2. listener = reg \/ act[Main].pc = "bind"
      BY <2>1 DEF IInv, Bound
    <2>3. CASE act[Main].pc # "bind"
      BY <1>2, <2>2, <2>3
    <2>4. CASE act[Main].pc = "bind"
      <3>1. Handled = reg /\ act[Main].obj = reg
        BY <1>12, <2>1, <2>4 DEF Last
      <3>2. Len(queue) = 0
        BY <2>1, Known DEF IInv
      <3>3. listener \in {0, Handled}
        BY <2>1, <3>2 DEF IInv, Binding, Owed, At
      <3>4. QED
        BY <1>2, <2>4, <3>1, <3>3
    <2>5. QED
      BY <2>3, <2>4
  <1>18. QED
    BY <1>6, <1>7, <1>8, <1>9, <1>10, <1>11, <1>13, <1>14, <1>16, <1>17 DEF IInv

---------------------------------------------------------------------------
(* Daemon.Stop.                                                            *)
LEMMA ClosingKeeps ==
  ASSUME IInv, TInv', CloseListeners \/ CloseRegistry
  PROVE  IInv'
  <1>1. /\ Others(Signals) /\ act'[Signals].kind = act[Signals].kind
        /\ \/ /\ act[Signals].pc = "unlisten" /\ act'[Signals].pc = "stopAll"
              /\ listener' = 0 /\ closed' = closed
           \/ /\ act[Signals].pc = "close" /\ act'[Signals].pc = "drain"
              /\ listener' = listener /\ closed' = TRUE
        /\ UNCHANGED <<daemon, regVars, queue, inProgress, worker, raced>>
    BY Actor, GotoMoves DEF CloseListeners, CloseRegistry, bindVars, IInv, TInv, Pcs, Ending
  <1>2. /\ act[Signals].kind = "shutdown" /\ daemon = "stopping"
        /\ Signals \in Operators /\ Signals # Main
    BY <1>1, Actor DEF IInv, Shut, Ending
  <1>3. act[Signals].pc \notin Taking /\ act'[Signals].pc \notin Taking
    BY <1>1 DEF Taking
  <1>4. Frame(Signals) /\ Alike
    <2>1. Frame(Signals)
      BY <1>1, Actor DEF Others, Frame
    <2>2. QED
      BY <1>3, <2>1, AlikeIs DEF Frame
  <1>5. Handled' = Handled /\ Last' = Last
    BY <1>1, <1>4 DEF Handled, Last, Frame
  <1>6. Alone'
    BY <1>3, <1>4 DEF IInv, Alone, Frame
  <1>7. Tasks'
    BY <1>1, <1>2, <1>4, Actor DEF IInv, Tasks, Frame, Ending
  <1>8. Shut'
    BY <1>1, <1>2, <1>4, Actor DEF IInv, Shut, Over, Frame, Alike, Ending, Stopping, State, regVars
  <1>9. Objects'
    BY <1>1, <1>3, <1>4 DEF IInv, Objects, Frame, Alike, State, Taking, regVars
  <1>10. Processes'
    BY <1>1, <1>4 DEF IInv, Processes, Alike, State, Running, regVars
  <1>11. News'
    BY <1>1, <1>4, <1>5 DEF IInv, News, Alike, State, Running, regVars
  <1>12. Alternate'
    BY <1>1, <1>5 DEF IInv, Alternate
  <1>13. Binding'
    <2>1. Owed
      BY <1>2 DEF IInv, Binding
    <2>2. Owed'
      BY <1>1, <1>2, <1>4, <1>5, <2>1 DEF Owed, Frame
    <2>3. QED
      BY <1>1, <1>2, <1>4, <2>2 DEF IInv, Binding, Frame
  <1>14. Boot' /\ Bound'
    BY <1>1, <1>2, <1>4 DEF IInv, Boot, Bound, Frame, State, regVars
  <1>15. QED
    BY <1>6, <1>7, <1>8, <1>9, <1>10, <1>11, <1>12, <1>13, <1>14 DEF IInv

(* What is left when the events have been handled belongs to a process     *)
(* that could not be stopped.                                              *)
LEMMA DrainedKeeps ==
  ASSUME IInv, TInv', Drained
  PROVE  IInv'
  <1>1. /\ Others(Signals) /\ act[Signals].pc = "drain" /\ act'[Signals].pc = "idle"
        /\ act'[Signals].kind = "none" /\ daemon' = "stopped" /\ worker' = 0
        /\ queue = <<>> /\ act[Handler].pc = "idle"
        /\ UNCHANGED <<regVars, queue, closed, listener, inProgress, raced>>
    BY Actor, IdleMoves DEF Drained, IInv, TInv
  <1>2. /\ act[Signals].kind = "shutdown" /\ daemon = "stopping"
        /\ Signals \in Operators /\ Signals # Main
    BY <1>1, Actor DEF IInv, Shut, Ending
  <1>3. /\ ~At(Taking) /\ (reg # 0 => State(reg) \in {"stopped", "failed"}) /\ ~Running
        /\ \A b \in Operators : act[b].pc \notin Taking
    BY <1>1 DEF IInv, Shut, Over, Running, At
  <1>4. Frame(Signals) /\ Alike
    <2>1. Frame(Signals)
      BY <1>1, Actor DEF Others, Frame
    <2>2. act'[Signals].pc \notin Taking
      BY <1>1 DEF Taking
    <2>3. QED
      BY <1>2, <1>3, <2>1, <2>2, AlikeIs DEF Frame
  <1>5. Last = worker /\ Last' = 0
    BY <1>1, <1>4 DEF Last, Handled, Frame, Working, Setup
  <1>6. ~At({"publish"}) /\ ~At({"fireStopped"}) /\ ~At({"fireStarted"})
        /\ ~At({"publish", "fireStarted"})
    BY <1>3 DEF At, Taking
  <1>7. ~stopFailed => worker = 0 /\ listener = 0 /\ service = 0
    <2>1. ~stopFailed => Last = 0
      BY <1>3, <1>6, Known DEF IInv, News
    <2>2. ~stopFailed => service = 0
      BY <1>3, <1>6, Known DEF IInv, Processes
    <2>3. listener \in {0, worker}
      <3>1. Len(queue) = 0
        BY <1>1, Known DEF IInv
      <3>2. QED
        BY <1>1, <1>2, <1>6, <3>1 DEF IInv, Binding, Owed, At, Handled, Working, Setup
    <2>4. QED
      BY <1>5, <2>1, <2>2, <2>3
  <1>8. Alone'
    BY <1>1, <1>2, <1>3, <1>4 DEF Alone, Frame, Taking
  <1>9. Tasks'
    BY <1>1, <1>4, Actor DEF IInv, Tasks, Frame
  <1>10. Shut'
    BY <1>1, <1>2, <1>3, <1>4, <1>7, Actor DEF IInv, Shut, Over, Frame, Alike, Ending, State, regVars
  <1>11. Objects'
    BY <1>1, <1>4 DEF IInv, Objects, Frame, Alike, State, regVars
  <1>12. Processes'
    BY <1>1, <1>4 DEF IInv, Processes, Alike, State, Running, regVars
  <1>13. News'
    BY <1>1, <1>3, <1>4, <1>5, <1>6 DEF News, Alike, State, Running, regVars
  <1>14. Alternate'
    BY <1>1, Known DEF IInv, Alternate
  <1>15. Binding'
    BY <1>1, <1>2, <1>4 DEF IInv, Binding, Frame, Working, Setup
  <1>16. Boot' /\ Bound'
    BY <1>1, <1>2, <1>4 DEF IInv, Boot, Bound, Frame, State, regVars
  <1>17. QED
    BY <1>8, <1>9, <1>10, <1>11, <1>12, <1>13, <1>14, <1>15, <1>16 DEF IInv

---------------------------------------------------------------------------
(* The invariant holds at first and is kept by every step of a behaviour   *)
(* that has not raced.                                                     *)
LEMMA InitSound == Init => IInv
  <1> SUFFICES ASSUME Init PROVE IInv
    OBVIOUS
  <1>1. /\ daemon = "running" /\ reg = 1 /\ added = 1 /\ blocked \in BOOLEAN
        /\ service = 0 /\ queue = <<>> /\ ~closed /\ listener = 0 /\ ~inProgress /\ worker = 0
    BY DEF Init
  <1>2. /\ \A a \in Actors \ {Main} : act[a].pc = "idle" /\ act[a].kind = "none"
        /\ act[Main].kind = "boot" /\ act[Main].pc \in {"list", "start"}
    <2> DEFINE boot == [pc |-> IF blocked THEN "list" ELSE "start", kind |-> "boot", obj |-> 0]
    <2>1. act = [a \in Actors |-> IF a # Main THEN Idle ELSE boot]
      BY DEF Init
    <2>2. boot.pc \in {"list", "start"} /\ boot.kind = "boot"
      OBVIOUS
    <2> HIDE DEF boot
    <2>3. QED
      BY <2>1, <2>2, Actor, Alphabet
  <1>3. /\ 1 \in Objs
        /\ \A o \in Objs : ~srv[o].proc /\ State(o) \in {"stopped", "failed"}
        /\ \A o \in Objs : o # 1 => srv[o] = [state |-> "stopped", proc |-> FALSE]
    <2>1. 1 \in Objs
      BY ConstantsAssumption DEF Objs
    <2>2. QED
      BY <2>1 DEF Init, State
  <1>4. /\ act[Handler].pc = "idle" /\ act[Signals].pc = "idle" /\ act[Signals].kind = "none"
        /\ \A a \in Operators : act[a].pc \in {"idle", "list", "start"}
        /\ ~Running
    BY <1>1, <1>2, <1>3, Actor, ConstantsAssumption DEF Running
  <1>5. /\ Sole(Main) /\ Main \in Operators /\ act[Main].pc \notin Taking
    BY <1>2, <1>4, Actor, SoleIs DEF Taking
  <1>6. Handled = 0 /\ Last = 0 /\ Len(queue) = 0
    BY <1>1, <1>4 DEF Handled, Last, Working, Setup
  <1>7. TInv
    BY InitNames
  <1>8. Alone
    BY <1>4 DEF Alone, Taking
  <1>9. Tasks
    BY <1>2, <1>4, Actor DEF Tasks, Starting
  <1>10. Shut
    BY <1>1, <1>2, <1>4, Actor DEF Shut, Over, Ending
  <1>11. Objects
    BY <1>1, <1>3, <1>4, <1>5 DEF Objects, Sole, Objs
  <1>12. Processes
    BY <1>1, <1>2, <1>3, <1>4, <1>5 DEF Processes, Sole
  <1>13. News
    BY <1>2, <1>4, <1>5, <1>6 DEF News, Sole
  <1>14. Alternate
    BY <1>1, <1>6 DEF Alternate
  <1>15. Binding
    BY <1>1, <1>2, <1>4 DEF Binding, Owed, Working, Setup
  <1>16. Boot /\ Bound
    BY <1>2, <1>4 DEF Boot, Bound
  <1>17. QED
    BY <1>7, <1>8, <1>9, <1>10, <1>11, <1>12, <1>13, <1>14, <1>15, <1>16 DEF IInv

LEMMA StutterSound == ASSUME IInv, UNCHANGED vars PROVE IInv'
  <1> USE DEF vars, regVars, bindVars, State, Running
  <1>1. Handled' = Handled /\ Last' = Last
    BY DEF Handled, Last
  <1>2. Alike
    BY AlikeIs
  <1>3. TInv'
    BY StepNames DEF IInv
  <1>4. Alone' /\ Tasks' /\ Boot' /\ Alternate' /\ Binding'
    BY <1>1 DEF IInv, Alone, Tasks, Boot, Alternate, Binding, Owed
  <1>5. Shut' /\ Objects' /\ Processes' /\ News' /\ Bound'
    BY <1>1, <1>2 DEF IInv, Alike, Shut, Over, Objects, Processes, News, Bound
  <1>6. QED
    BY <1>3, <1>4, <1>5 DEF IInv

LEMMA StepSound == ASSUME IInv, [Next]_vars, ~raced' PROVE IInv'
  <1>0. TInv'
    BY StepNames DEF IInv
  <1>1. ASSUME NEW a \in Admins, ToolRestart(a) \/ ToolRemove(a) PROVE IInv'
    BY <1>0, <1>1, Actor, BeginKeeps
  <1>2. CASE Reload \/ Shutdown
    BY <1>0, <1>2, Actor, BeginKeeps
  <1>3. ASSUME NEW a \in Operators,
               \/ StartLock(a) \/ StartGuard(a) \/ StartSpawn(a) \/ StartFailed(a)
               \/ StartPublish(a) \/ FireStarted(a)
        PROVE  IInv'
    BY <1>0, <1>3, StartWaits, StartBegins, StartGuardKeeps, StartSpawnKeeps, StartFailedKeeps,
       StartPublishKeeps, FireKeeps
  <1>4. ASSUME NEW a \in Operators,
               \/ StopLock(a) \/ StopHalt(a) \/ StopFailed(a) \/ StopPublish(a)
               \/ FireStopped(a) \/ Remove(a) \/ Add(a)
        PROVE  IInv'
    BY <1>0, <1>4, StopReturnsAtOnce, StopBegins, StopHaltKeeps, StopFailedKeeps,
       StopPublishKeeps, FireKeeps, RemoveKeeps, AddKeeps
  <1>5. CASE Deliver \/ StartProbeWorker \/ RemoveProbeWorker \/ TeardownProxy
    BY <1>0, <1>5, DeliverKeeps, WorkerKeeps
  <1>6. ASSUME NEW a \in {Main, Handler},
               SetupCheck(a) \/ SetupLook(a) \/ SetupClaim(a) \/ AddStreamable(a)
        PROVE  IInv'
    BY <1>0, <1>6, MainSetupKeeps, HandlerSetupKeeps
  <1>7. CASE SetupList \/ CloseListeners \/ StopAll \/ CloseRegistry \/ Drained
    BY <1>0, <1>7, SetupListKeeps, StopAllKeeps, ClosingKeeps, DrainedKeeps
  <1>8. CASE UNCHANGED vars
    BY <1>8, StutterSound
  <1>9. QED
    BY <1>1, <1>2, <1>3, <1>4, <1>5, <1>6, <1>7, <1>8 DEF Next

(* A race is remembered.                                                   *)
LEMMA RaceStays == ASSUME raced, [Next]_vars PROVE raced'
  <1>1. ASSUME NEW a \in Operators,
               \/ StartLock(a) \/ StartGuard(a) \/ StartSpawn(a) \/ StartFailed(a)
               \/ StartPublish(a) \/ FireStarted(a)
        PROVE  raced'
    BY <1>1 DEF StartLock, StartGuard, StartSpawn, StartFailed, StartPublish, FireStarted, Fire
  <1>2. ASSUME NEW a \in Operators,
               \/ StopLock(a) \/ StopHalt(a) \/ StopFailed(a) \/ StopPublish(a)
               \/ FireStopped(a) \/ Remove(a) \/ Add(a)
        PROVE  raced'
    BY <1>2 DEF StopLock, StopHalt, StopFailed, StopPublish, FireStopped, Fire, Remove, Add
  <1>3. ASSUME NEW a \in {Main, Handler},
               SetupCheck(a) \/ SetupLook(a) \/ SetupClaim(a) \/ AddStreamable(a)
        PROVE  raced'
    BY <1>3 DEF SetupCheck, SetupLook, SetupClaim, AddStreamable
  <1>4. CASE \/ \E a \in Admins : ToolRestart(a) \/ ToolRemove(a)
             \/ Reload \/ Shutdown \/ Deliver \/ SetupList
             \/ StartProbeWorker \/ RemoveProbeWorker \/ TeardownProxy
             \/ CloseListeners \/ StopAll \/ CloseRegistry \/ Drained
    BY <1>4 DEF ToolRestart, ToolRemove, Reload, Shutdown, Begins, Deliver, SetupList,
         StartProbeWorker, RemoveProbeWorker, TeardownProxy, CloseListeners, StopAll,
         CloseRegistry, Drained
  <1>5. CASE UNCHANGED vars
    BY <1>5 DEF vars
  <1>6. QED
    BY <1>1, <1>2, <1>3, <1>4, <1>5 DEF Next

(* The inductive invariant of all behaviours: until two operations have    *)
(* been between their first lock and their event at once, the last event   *)
(* sent tells the state of the server and the listener follows the events, *)
(* however the operations, Daemon.Start's setup, the shutdown and the      *)
(* handler are interleaved otherwise.                                      *)
THEOREM LifecycleSound == Spec => [](raced \/ IInv)
  <1>1. (raced \/ IInv) /\ [Next]_vars => (raced \/ IInv)'
    BY StepSound, RaceStays
  <1>2. Init => raced \/ IInv
    BY InitSound
  <1>3. QED
    BY <1>1, <1>2, PTL DEF Spec

(* When all events are handled, Last is the worker, and the invariant says *)
(* of the last event what the properties say of the listener.              *)
LEMMA BoundWhenQuiet == ASSUME raced \/ IInv PROVE RunningIsBound /\ StoppedIsUnbound
  <1> SUFFICES ASSUME Quiet, IInv
               PROVE  /\ Running => listener = reg /\ worker = reg
                      /\ ~Running /\ ~stopFailed => listener = 0 /\ worker = 0 /\ service = 0
    BY DEF RunningIsBound, StoppedIsUnbound
  <1>1. /\ daemon = "running" /\ queue = <<>> /\ act[Handler].pc = "idle"
        /\ act[Main].pc = "idle" /\ Sole(Main) /\ \A a \in Operators : act[a].pc = "idle"
    BY Actor, SoleIs DEF Quiet, Taking
  <1>2. Last = worker /\ listener \in {0, worker}
    <2>1. Len(queue) = 0
      BY <1>1, Known DEF IInv
    <2>2. QED
      BY <1>1, <2>1 DEF IInv, Binding, Owed, Last, Handled, Working, Setup
  <1>3. Running => worker = reg /\ listener = reg
    BY <1>1, <1>2 DEF IInv, News, Bound, Sole
  <1>4. ASSUME ~Running, ~stopFailed PROVE listener = 0 /\ worker = 0 /\ service = 0
    <2>1. reg # 0 => State(reg) \notin {"running", "stopping"}
      BY <1>1, <1>4 DEF IInv, Objects, Sole, Running
    <2>2. reg = 0 => service = 0 /\ Last = 0
      BY <1>1, <1>4, Known DEF IInv, News, Processes, Sole
    <2>3. reg # 0 => service = 0 /\ Last = 0
      BY <1>1, <1>4, <2>1 DEF IInv, News, Processes, Sole
    <2>4. QED
      BY <1>2, <2>2, <2>3
  <1>5. QED
    BY <1>3, <1>4

(* When every event has been handled, a server that is reported running    *)
(* has the listener and the probe worker of its present configuration,     *)
(* however often it was restarted, updated or removed and added, until     *)
(* operations race.                                                        *)
THEOREM RunningHolds == Spec => []RunningIsBound
  <1>1. raced \/ IInv => RunningIsBound
    BY BoundWhenQuiet
  <1>2. QED
    BY LifecycleSound, <1>1, PTL

(* When every event has been handled, a server that does not run leaves no *)
(* listener, no worker and no process behind, unless a stop timed out or   *)
(* operations raced.                                                       *)
THEOREM StoppedHolds == Spec => []StoppedIsUnbound
  <1>1. raced \/ IInv => StoppedIsUnbound
    BY BoundWhenQuiet
  <1>2. QED
    BY LifecycleSound, <1>1, PTL

(* When Daemon.Stop has returned nothing is bound, whatever events were    *)
(* queued when it closed the listeners and whatever Daemon.Start was still *)
(* setting up, unless a stop timed out or operations raced.                *)
THEOREM ShutdownHolds == Spec => []ShutdownIsClean
  <1>1. raced \/ IInv => ShutdownIsClean
    BY DEF IInv, Shut, ShutdownIsClean
  <1>2. QED
    BY LifecycleSound, <1>1, PTL

---------------------------------------------------------------------------
(* The backend of a managed server.                                        *)

Req == [pc: {"idle", "sent", "answered"}, gen: 0 .. MaxStarts, reserved: BOOLEAN,
        old: BOOLEAN]
Recycler == [pc: {"idle", "wait", "recycle", "finish"}, closed: BOOLEAN]
Monitor == [pc: {"look", "lost", "invalidate", "fresh", "probing", "restart", "select",
                 "exit"},
            why: {"down", "replaced", "unready"},
            gen: 0 .. MaxStarts, attempted: 0 .. MaxStarts, active: 0 .. MaxStarts]

Busy == {r \in Requests : req[r].pc # "idle"}

(* The monitor goes about a generation that it found running.              *)
Found == \/ monitor.pc \in {"fresh", "probing"}
         \/ monitor.pc \in {"lost", "invalidate"} /\ monitor.why = "replaced"

(* What the monitor knows of the process was true once; the generation it  *)
(* probes either replaces the one it last found ready, whose leases are    *)
(* gone, or is that one.                                                   *)
Generations ==
  /\ serve = "spawn" => generation < starts
  /\ monitor.gen <= generation /\ monitor.active <= generation
  /\ Found => monitor.gen # 0
  /\ monitor.pc \in {"fresh", "probing"} => monitor.active \in {0, monitor.gen}

(* A lease, and an initialize that may still commit one, are of the last   *)
(* generation found ready or of a later one.                               *)
Admitted ==
  /\ \A g \in leases : monitor.active # 0 /\ g >= monitor.active
  /\ \A r \in Requests :
       /\ req[r].reserved => req[r].pc # "idle" /\ monitor.active # 0
       /\ req[r].reserved /\ req[r].gen # 0 => req[r].gen >= monitor.active
       /\ req[r].pc = "answered" => req[r].gen # 0
       /\ req[r].gen <= generation

(* The gateway is shut before the leases are invalidated.                  *)
Opened == /\ state = "ready" => monitor.active # 0
          /\ monitor.pc = "invalidate" => state # "ready"

(* zeroCh is closed only when the requests of the drain are gone.          *)
Drain ==
  /\ \A r \in Requests : req[r].old => req[r].pc # "idle"
  /\ (recycler.pc = "wait" /\ recycler.closed) \/ recycler.pc = "recycle"
       => \A r \in Requests : ~req[r].old

BackendInv == BackendTypeOK /\ Generations /\ Admitted /\ Opened /\ Drain

---------------------------------------------------------------------------
LEMMA Types ==
  BackendTypeOK <=>
    /\ state \in {"probing", "ready", "draining", "recycling", "restarting"}
    /\ inFlight = Cardinality(Busy)
    /\ req \in [Requests -> Req] /\ leases \subseteq 1 .. MaxStarts
    /\ recycler \in Recycler
    /\ reported \in 0 .. MaxRecycles /\ recycles \in 0 .. reported
    /\ monitor \in Monitor
    /\ serve \in {"start", "spawn", "running", "wait", "over"}
    /\ pstate \in {"stopped", "starting", "running", "crashed", "failed"}
    /\ starts \in 0 .. MaxStarts /\ generation \in 0 .. starts
    /\ child \in {0, generation}
    /\ term \in BOOLEAN /\ exit \in {"ok", "error"} /\ event \in BOOLEAN
    /\ stopped \in BOOLEAN
  BY DEF BackendTypeOK, Busy, Req, Recycler, Monitor

LEMMA BusyIsFinite == IsFiniteSet(Busy) /\ Cardinality(Busy) \in Nat
  BY BackendAssumption, FS_Subset, FS_CardinalityType DEF Busy

---------------------------------------------------------------------------
(* The process, its supervisor and the teardown of the listener.           *)
LEMMA ProcessKeeps ==
  ASSUME BackendInv, ServeStep \/ ChildExits \/ Teardown
  PROVE  BackendInv'
  <1>1. /\ UNCHANGED <<state, inFlight, req, leases, recycler, recycles, reported, monitor>>
        /\ Busy' = Busy
    BY DEF ServeStep, ServeStart, ServeSpawn, SpawnFails, ServeRunning, FinishExit, Finish,
           ChildExits, Teardown, coordVars, recVars, Busy
  <1>2. /\ starts \in 0 .. MaxStarts /\ generation \in 0 .. starts /\ child \in {0, generation}
        /\ MaxStarts \in Nat
        /\ serve = "spawn" => generation < starts
        /\ serve \in {"start", "spawn", "running", "wait", "over"}
        /\ pstate \in {"stopped", "starting", "running", "crashed", "failed"}
        /\ term \in BOOLEAN /\ exit \in {"ok", "error"} /\ event \in BOOLEAN
        /\ stopped \in BOOLEAN
    BY Types, BackendAssumption DEF BackendInv, Generations
  <1>3. /\ starts' \in 0 .. MaxStarts /\ generation' \in 0 .. starts'
        /\ child' \in {0, generation'} /\ generation <= generation'
        /\ serve' = "spawn" => generation' < starts'
        /\ serve' \in {"start", "spawn", "running", "wait", "over"}
        /\ pstate' \in {"stopped", "starting", "running", "crashed", "failed"}
        /\ term' \in BOOLEAN /\ exit' \in {"ok", "error"} /\ event' \in BOOLEAN
        /\ stopped' \in BOOLEAN
    <2>1. CASE ServeStart
      BY <1>2, <2>1 DEF ServeStart
    <2>2. CASE ServeSpawn
      <3>1. /\ generation' = generation + 1 /\ child' = generation' /\ starts' = starts
            /\ serve' = "running" /\ pstate' = pstate
        BY <2>2 DEF ServeSpawn
      <3>2. exit' = exit /\ event' = event /\ stopped' = stopped
        BY <2>2 DEF ServeSpawn
      <3>0. term' \in BOOLEAN
        BY <2>2, Zenon DEF ServeSpawn
      <3>3. generation < starts
        BY <1>2, <2>2 DEF ServeSpawn
      <3>4. generation' \in 0 .. starts' /\ generation <= generation'
        BY <1>2, <3>1, <3>3
      <3>5. QED
        BY <1>2, <3>0, <3>1, <3>2, <3>4
    <2>3. CASE SpawnFails
      BY <1>2, <2>3 DEF SpawnFails, Finish
    <2>4. CASE ServeRunning
      BY <1>2, <2>4 DEF ServeRunning
    <2>5. CASE FinishExit
      BY <1>2, <2>5 DEF FinishExit, Finish
    <2>6. CASE ChildExits
      <3>1. child' = 0 /\ exit' \in {"ok", "error"}
        BY <2>6 DEF ChildExits
      <3>2. term' \in BOOLEAN
        BY <2>6, Zenon DEF ChildExits
      <3>3. UNCHANGED <<starts, generation, serve, pstate, event, stopped>>
        BY <2>6 DEF ChildExits
      <3>4. QED
        BY <1>2, <3>1, <3>2, <3>3
    <2>7. CASE Teardown
      BY <1>2, <2>7 DEF Teardown, procVars
    <2>8. QED
      BY <2>1, <2>2, <2>3, <2>4, <2>5, <2>6, <2>7 DEF ServeStep
  <1>4. BackendTypeOK'
    BY <1>1, <1>3, Types DEF BackendInv, BackendTypeOK, Busy
  <1>5. Generations'
    BY <1>1, <1>2, <1>3, Types DEF BackendInv, Generations, Found, Monitor
  <1>6. Admitted'
    BY <1>1, <1>2, <1>3, Types DEF BackendInv, Admitted, Req
  <1>7. Opened' /\ Drain'
    BY <1>1 DEF BackendInv, Opened, Drain
  <1>8. QED
    BY <1>4, <1>5, <1>6, <1>7 DEF BackendInv

---------------------------------------------------------------------------
(* Requests.                                                               *)
LEMMA RequestFacts ==
  ASSUME BackendInv
  PROVE  /\ req \in [Requests -> Req] /\ recycler \in Recycler /\ monitor \in Monitor
         /\ leases \subseteq 1 .. MaxStarts /\ generation \in 0 .. MaxStarts
         /\ child \in {0, generation} /\ inFlight = Cardinality(Busy)
         /\ MaxStarts \in Nat /\ MaxRecycles \in Nat
         /\ reported \in 0 .. MaxRecycles /\ recycles \in 0 .. reported
         /\ starts \in 0 .. MaxStarts
  BY Types, BackendAssumption DEF BackendInv

(* The types after a step that moves requests only.                        *)
LEMMA RequestTypes ==
  ASSUME BackendInv, UNCHANGED <<state, monitor, procVars, stopped>>,
         req' \in [Requests -> Req], recycler' \in Recycler, leases' \subseteq 1 .. MaxStarts,
         inFlight' = Cardinality(Busy'),
         reported' \in 0 .. MaxRecycles, recycles' \in 0 .. reported'
  PROVE  BackendTypeOK'
  BY DEF BackendInv, BackendTypeOK, procVars, Busy, Req, Recycler

LEMMA RequestBegins ==
  ASSUME BackendInv, NEW r \in Requests, BeginRequest(r)
  PROVE  BackendInv'
  <1> DEFINE q == [pc |-> "sent", gen |-> child, reserved |-> TRUE, old |-> FALSE]
  <1>1. /\ req[r].pc = "idle" /\ state = "ready" /\ inFlight' = inFlight + 1
        /\ req' = [req EXCEPT ![r] = q]
        /\ UNCHANGED <<state, leases, recycler, recycles, reported, monitor, procVars, stopped,
                       serve, starts, generation>>
    BY DEF BeginRequest, recVars, procVars
  <1>2. q \in Req /\ q.pc = "sent" /\ q.gen = child /\ ~q.old
    BY RequestFacts DEF Req
  <1> HIDE DEF q
  <1>3. /\ req' \in [Requests -> Req] /\ req'[r] = q
        /\ \A s \in Requests \ {r} : req'[s] = req[s]
    BY <1>1, <1>2, RequestFacts
  <1>4. Busy' = Busy \cup {r} /\ r \notin Busy
    BY <1>1, <1>2, <1>3 DEF Busy
  <1>5. inFlight' = Cardinality(Busy')
    BY <1>1, <1>4, BusyIsFinite, FS_AddElement, RequestFacts
  <1>6. BackendTypeOK'
    BY <1>1, <1>3, <1>5, RequestFacts, RequestTypes
  <1>7. Generations' /\ Opened'
    BY <1>1 DEF BackendInv, Generations, Found, Opened
  <1>8. Admitted'
    <2>1. monitor.active # 0 /\ monitor.active <= generation /\ child <= generation
          /\ (child # 0 => child = generation)
      BY <1>1, RequestFacts DEF BackendInv, Opened, Generations
    <2>2. QED
      BY <1>1, <1>2, <1>3, <2>1 DEF BackendInv, Admitted
  <1>9. Drain'
    BY <1>1, <1>2, <1>3 DEF BackendInv, Drain
  <1>10. QED
    BY <1>6, <1>7, <1>8, <1>9 DEF BackendInv

LEMMA AnsweredKeeps ==
  ASSUME BackendInv, NEW r \in Requests, Answered(r)
  PROVE  BackendInv'
  <1> DEFINE q == [req[r] EXCEPT !.pc = "answered"]
  <1>1. /\ req[r].pc = "sent" /\ req[r].gen # 0 /\ req' = [req EXCEPT ![r] = q]
        /\ UNCHANGED <<state, inFlight, leases, recycler, recycles, reported, monitor,
                       procVars, stopped, serve, starts, generation>>
    BY DEF Answered, recVars, procVars, coordVars
  <1>2. /\ q \in Req /\ q.pc = "answered" /\ q.gen = req[r].gen /\ q.old = req[r].old
        /\ q.reserved = req[r].reserved
    BY RequestFacts DEF Req
  <1> HIDE DEF q
  <1>3. /\ req' \in [Requests -> Req] /\ req'[r] = q
        /\ \A s \in Requests \ {r} : req'[s] = req[s]
    BY <1>1, <1>2, RequestFacts
  <1>4. Busy' = Busy
    BY <1>1, <1>2, <1>3 DEF Busy
  <1>5. BackendTypeOK'
    BY <1>1, <1>3, <1>4, RequestFacts, RequestTypes
  <1>6. Generations' /\ Opened'
    BY <1>1 DEF BackendInv, Generations, Found, Opened
  <1>7. Admitted'
    BY <1>1, <1>2, <1>3 DEF BackendInv, Admitted
  <1>8. Drain'
    BY <1>1, <1>2, <1>3 DEF BackendInv, Drain
  <1>9. QED
    BY <1>5, <1>6, <1>7, <1>8 DEF BackendInv

(* A request ends; the last one of a drain closes zeroCh.                  *)
LEMMA EndKeeps ==
  ASSUME BackendInv, NEW r \in Requests, req[r].pc # "idle", EndRequest(r),
         UNCHANGED <<state, monitor, procVars, stopped>>,
         \/ leases' = leases
         \/ /\ req[r].pc = "answered" /\ req[r].reserved
            /\ leases' = leases \cup {req[r].gen},
         reported' \in 0 .. MaxRecycles, recycles' \in 0 .. reported'
  PROVE  BackendInv'
  <1>1. IdleReq \in Req /\ IdleReq.pc = "idle" /\ ~IdleReq.old /\ ~IdleReq.reserved
        /\ IdleReq.gen = 0
    BY RequestFacts DEF IdleReq, Req
  <1>2. /\ req' \in [Requests -> Req] /\ req'[r] = IdleReq
        /\ \A s \in Requests \ {r} : req'[s] = req[s]
    BY <1>1, RequestFacts DEF EndRequest
  <1>3. Busy' = Busy \ {r} /\ r \in Busy
    BY <1>1, <1>2 DEF Busy
  <1>4. inFlight' = Cardinality(Busy')
    BY <1>3, BusyIsFinite, FS_RemoveElement, RequestFacts DEF EndRequest
  <1>5. /\ recycler' \in Recycler /\ recycler'.pc = recycler.pc
        /\ recycler'.closed => recycler.closed \/ (inFlight = 1 /\ recycler.pc = "wait")
    BY RequestFacts DEF EndRequest, Recycler
  <1>6. req[r].gen \in 0 .. MaxStarts /\ (req[r].pc = "answered" => req[r].gen # 0)
    BY RequestFacts DEF Req, BackendInv, Admitted
  <1>7. leases' \subseteq 1 .. MaxStarts
    BY <1>6, RequestFacts
  <1>8. BackendTypeOK'
    BY <1>2, <1>4, <1>5, <1>7, RequestTypes
  <1>9. Generations' /\ Opened'
    BY DEF BackendInv, Generations, Found, Opened, procVars
  <1>10. Admitted'
    <2>1. /\ \A g \in leases' : monitor.active # 0 /\ g >= monitor.active
          /\ monitor' = monitor /\ generation' = generation /\ generation \in Nat
      BY <1>6, RequestFacts DEF BackendInv, Admitted, procVars
    <2>2. QED
      BY <1>1, <1>2, <2>1 DEF BackendInv, Admitted
  <1>11. Drain'
    <2>1. \A s \in Requests : req'[s].old => req[s].old /\ req'[s].pc # "idle"
      BY <1>1, <1>2 DEF BackendInv, Drain
    <2>2. CASE inFlight = 1
      <3>1. Cardinality(Busy) = 1
        BY <2>2, RequestFacts
      <3>9. PICK x : Busy = {x}
        BY <3>1, BusyIsFinite, RequestFacts, FS_Singleton
      <3>2. \A s \in Requests \ {r} : req[s].pc = "idle"
        BY <1>3, <3>9 DEF Busy
      <3>3. \A s \in Requests : ~req'[s].old
        BY <1>1, <1>2, <3>2 DEF BackendInv, Drain
      <3>4. QED
        BY <2>1, <3>3 DEF Drain
    <2>3. CASE inFlight # 1
      BY <1>5, <2>1, <2>3 DEF BackendInv, Drain
    <2>4. QED
      BY <2>2, <2>3
  <1>12. QED
    BY <1>8, <1>9, <1>10, <1>11 DEF BackendInv

LEMMA RequestKeeps ==
  ASSUME BackendInv, NEW r \in Requests, BeginRequest(r) \/ RequestStep(r)
  PROVE  BackendInv'
  <1>1. CASE Commit(r)
    BY <1>1, EndKeeps, RequestFacts DEF Commit
  <1>2. CASE RequestFails(r)
    <2>1. reported' \in 0 .. MaxRecycles /\ recycles' \in 0 .. reported'
      BY <1>2, RequestFacts DEF RequestFails
    <2>2. QED
      BY <1>2, <2>1, EndKeeps DEF RequestFails
  <1>3. QED
    BY <1>1, <1>2, RequestBegins, AnsweredKeeps DEF RequestStep

---------------------------------------------------------------------------
(* The recycle goroutines.                                                 *)
LEMMA RecycleStartKeeps ==
  ASSUME BackendInv, RecycleStart
  PROVE  BackendInv'
  <1>1. /\ recycles > 0 /\ recycler.pc = "idle" /\ recycles' = recycles - 1
        /\ UNCHANGED <<inFlight, leases, reported, monitor, procVars, stopped, serve,
                       starts, generation>>
    BY DEF RecycleStart, procVars
  <1>2. recycles' \in 0 .. reported'
    BY <1>1, RequestFacts
  <1>3. CASE state # "ready"
    <2>1. UNCHANGED <<state, recycler, req>> /\ Busy' = Busy
      BY <1>3 DEF RecycleStart, Busy
    <2>2. BackendTypeOK'
      BY <1>1, <1>2, <2>1 DEF BackendInv, BackendTypeOK, procVars
    <2>3. Generations' /\ Admitted' /\ Opened' /\ Drain'
      BY <1>1, <2>1 DEF BackendInv, Generations, Found, Admitted, Opened, Drain
    <2>4. QED
      BY <2>2, <2>3 DEF BackendInv
  <1>4. CASE state = "ready"
    <2>1. /\ state' = "draining" /\ recycler' = [pc |-> "wait", closed |-> (inFlight = 0)]
          /\ req' = [s \in Requests |-> [req[s] EXCEPT !.old = req[s].pc # "idle"]]
      BY <1>4 DEF RecycleStart
    <2>2. ASSUME NEW s \in Requests
          PROVE  /\ req'[s] \in Req /\ req'[s].pc = req[s].pc /\ req'[s].gen = req[s].gen
                 /\ req'[s].reserved = req[s].reserved
                 /\ req'[s].old => req[s].pc # "idle"
      BY <2>1, RequestFacts DEF Req
    <2>3. req' \in [Requests -> Req] /\ Busy' = Busy
      <3>1. req' = [s \in Requests |-> req'[s]]
        BY <2>1
      <3>2. QED
        BY <2>2, <3>1 DEF Busy
    <2>4. recycler' \in Recycler /\ recycler'.pc = "wait" /\ (recycler'.closed => inFlight = 0)
      BY <2>1 DEF Recycler
    <2>5. BackendTypeOK'
      <3>1. inFlight' = Cardinality(Busy')
        BY <1>1, <2>3, RequestFacts
      <3>2. state' \in {"probing", "ready", "draining", "recycling", "restarting"}
        BY <2>1
      <3>3. UNCHANGED <<pstate, child, term, exit, event>>
        BY <1>1 DEF procVars
      <3>4. QED
        BY <1>1, <1>2, <2>3, <2>4, <3>1, <3>2, <3>3
        DEF BackendInv, BackendTypeOK, Req, Recycler, Busy
    <2>6. Generations' /\ Opened'
      BY <1>1, <2>1 DEF BackendInv, Generations, Found, Opened
    <2>7. Admitted'
      BY <1>1, <2>2 DEF BackendInv, Admitted
    <2>8. Drain'
      <3>1. inFlight = 0 => \A s \in Requests : req[s].pc = "idle"
        BY RequestFacts, BusyIsFinite, FS_EmptySet DEF Busy
      <3>2. QED
        BY <2>2, <2>4, <3>1 DEF Drain
    <2>9. QED
      BY <2>5, <2>6, <2>7, <2>8 DEF BackendInv
  <1>5. QED
    BY <1>3, <1>4

LEMMA RecycleKeeps ==
  ASSUME BackendInv, DrainCancelled \/ DrainEnds \/ Recycle \/ RecycleFinish
  PROVE  BackendInv'
  <1>1. /\ UNCHANGED <<inFlight, req, leases, recycles, reported, monitor, serve, starts,
                       pstate, generation, child, exit, event, stopped>>
        /\ Busy' = Busy
    BY DEF DrainCancelled, DrainEnds, Recycle, RecycleFinish, coordVars, procVars, Busy
  <1>2. /\ state' = state \/ state' \in {"restarting", "recycling", "probing"}
        /\ term' \in BOOLEAN
    <2>1. state' = state \/ state' \in {"restarting", "recycling", "probing"}
      BY DEF DrainCancelled, DrainEnds, Recycle, RecycleFinish, coordVars
    <2>2. CASE Recycle
      <3>1. term' \in BOOLEAN
        BY <2>2, Zenon DEF Recycle, RequestRestart
      <3>2. QED
        BY <2>1, <3>1
    <2>3. CASE DrainCancelled \/ DrainEnds \/ RecycleFinish
      BY <2>3, Types DEF DrainCancelled, DrainEnds, RecycleFinish, procVars, BackendInv
    <2>4. QED
      BY <2>1, <2>2, <2>3
  <1>3. /\ recycler' \in Recycler /\ recycler'.pc # "wait"
        /\ recycler'.pc = "recycle" => recycler.pc = "wait" /\ recycler.closed
    <2>1. CASE DrainCancelled \/ RecycleFinish
      <3>1. recycler' = [pc |-> "idle", closed |-> FALSE]
        BY <2>1 DEF DrainCancelled, RecycleFinish
      <3>2. QED
        BY <3>1 DEF Recycler
    <2>2. CASE DrainEnds
      BY <2>2 DEF DrainEnds, Recycler
    <2>3. CASE Recycle
      BY <2>3, RequestFacts DEF Recycle, Recycler
    <2>4. QED
      BY <2>1, <2>2, <2>3
  <1>4. BackendTypeOK'
    BY <1>1, <1>2, <1>3 DEF BackendInv, BackendTypeOK, Recycler
  <1>5. Generations' /\ Admitted' /\ Opened'
    BY <1>1, <1>2 DEF BackendInv, Generations, Found, Admitted, Opened
  <1>6. Drain'
    BY <1>1, <1>3 DEF BackendInv, Drain
  <1>7. QED
    BY <1>4, <1>5, <1>6 DEF BackendInv

---------------------------------------------------------------------------
(* The monitor.                                                            *)
LEMMA MonitorTypes ==
  ASSUME BackendInv,
         UNCHANGED <<inFlight, recVars, serve, starts, pstate, generation, child, exit,
                     stopped>>,
         state' \in {"probing", "ready", "draining", "recycling", "restarting"},
         req' \in [Requests -> Req], Busy' = Busy, leases' \subseteq leases,
         monitor' \in Monitor, term' \in BOOLEAN, event' \in BOOLEAN
  PROVE  BackendTypeOK' /\ recycler' = recycler
  <1>1. BackendTypeOK /\ UNCHANGED <<recycler, recycles, reported>>
    BY DEF BackendInv, recVars
  <1>2. (inFlight = Cardinality(Busy))'
    BY <1>1 DEF BackendTypeOK, Busy
  <1>3. leases' \subseteq 1 .. MaxStarts
    BY <1>1 DEF BackendTypeOK
  <1>4. /\ recycler' \in [pc: {"idle", "wait", "recycle", "finish"}, closed: BOOLEAN]
        /\ reported' \in 0 .. MaxRecycles /\ recycles' \in 0 .. reported'
        /\ serve' \in {"start", "spawn", "running", "wait", "over"}
        /\ pstate' \in {"stopped", "starting", "running", "crashed", "failed"}
    BY <1>1 DEF BackendTypeOK
  <1>5. QED
    BY <1>1, <1>2, <1>3, <1>4 DEF BackendTypeOK, Busy, Req, Monitor

(* Steps that leave the leases and the monitor's last ready generation.    *)
LEMMA MonitorMoves ==
  ASSUME BackendInv, MonitorLook \/ MonitorLost \/ MonitorProbe \/ MonitorUnready
               \/ MonitorRestart \/ MonitorWake \/ MonitorExit
  PROVE  BackendInv'
  <1>1. /\ UNCHANGED <<inFlight, req, leases, recVars, recycler, serve, starts, pstate,
                       generation, child, exit, stopped>>
        /\ Busy' = Busy
    BY DEF MonitorLook, MonitorLost, MonitorProbe, MonitorUnready, MonitorRestart,
           MonitorWake, MonitorExit, coordVars, recVars, procVars, Busy
  <1>2. /\ state' = state \/ (state' = "restarting" /\ monitor'.pc = "invalidate")
                          \/ (state' = "probing" /\ monitor'.pc = "probing")
        /\ monitor'.pc = "invalidate" => state' # "ready"
        /\ monitor'.active = monitor.active
        /\ monitor' \in Monitor
        /\ Found' => monitor'.gen # 0
        /\ monitor'.pc \in {"fresh", "probing"} => monitor'.active \in {0, monitor'.gen}
        /\ monitor'.gen \in {monitor.gen, generation}
    <2>1. /\ monitor \in Monitor /\ generation \in 0 .. MaxStarts
          /\ Found => monitor.gen # 0
          /\ monitor.pc \in {"fresh", "probing"} => monitor.active \in {0, monitor.gen}
      BY RequestFacts DEF BackendInv, Generations
    <2>2. CASE MonitorLook
      <3> DEFINE fresh == pstate = "running" /\ generation \notin {0, monitor.attempted}
                 again == fresh /\ monitor.active \notin {0, generation}
                 down  == pstate \in {"crashed", "stopped", "failed"}
                 why == IF again THEN "replaced" ELSE IF down THEN "down" ELSE monitor.why
                 pc == IF again \/ down THEN "lost" ELSE IF fresh THEN "fresh" ELSE "select"
      <3>1. /\ monitor' = [monitor EXCEPT !.gen = generation, !.why = why, !.pc = pc]
            /\ state' = state
        BY <2>2 DEF MonitorLook, coordVars
      <3>2. /\ why \in {"down", "replaced", "unready"} /\ pc \in {"lost", "fresh", "select"}
            /\ pc = "fresh" => generation # 0 /\ monitor.active \in {0, generation}
            /\ pc = "lost" /\ why = "replaced" => generation # 0
        BY <2>1 DEF Monitor
      <3> HIDE DEF why, pc
      <3>3. /\ monitor' \in Monitor /\ monitor'.gen = generation
            /\ monitor'.why = why /\ monitor'.pc = pc /\ monitor'.active = monitor.active
        BY <2>1, <3>1, <3>2 DEF Monitor
      <3>4. QED
        BY <3>1, <3>2, <3>3 DEF Found
    <2>3. CASE MonitorLost
      BY <2>1, <2>3 DEF MonitorLost, Monitor, Found
    <2>4. CASE MonitorProbe
      BY <2>1, <2>4 DEF MonitorProbe, Monitor, Found
    <2>5. CASE MonitorUnready
      BY <2>1, <2>5 DEF MonitorUnready, Monitor, Found, coordVars
    <2>6. CASE MonitorRestart \/ MonitorWake \/ MonitorExit
      BY <2>1, <2>6
      DEF MonitorRestart, MonitorWake, MonitorExit, Monitor, Found, coordVars
    <2>7. QED
      BY <2>2, <2>3, <2>4, <2>5, <2>6
  <1>3. term' \in BOOLEAN
    <2>1. CASE MonitorRestart
      BY <2>1, Zenon DEF MonitorRestart, RequestRestart
    <2>2. CASE term' = term
      BY <2>2, Types DEF BackendInv
    <2>3. QED
      BY <2>1, <2>2
      DEF MonitorLook, MonitorLost, MonitorProbe, MonitorUnready, MonitorWake,
                        MonitorExit, procVars
  <1>4. event' \in BOOLEAN
    <2>1. CASE MonitorWake
      BY <2>1, Zenon DEF MonitorWake
    <2>2. CASE event' = event
      BY <2>2, Types DEF BackendInv
    <2>3. QED
      BY <2>1, <2>2
      DEF MonitorLook, MonitorLost, MonitorProbe, MonitorUnready, MonitorRestart,
                        MonitorExit, procVars
  <1>5. BackendTypeOK'
    <2>1. state' \in {"probing", "ready", "draining", "recycling", "restarting"}
      BY <1>2, Types DEF BackendInv
    <2>2. QED
      BY <1>1, <1>2, <1>3, <1>4, <2>1, MonitorTypes, RequestFacts
  <1>6. Generations'
    BY <1>1, <1>2, RequestFacts DEF BackendInv, Generations
  <1>7. Admitted' /\ Opened'
    BY <1>1, <1>2 DEF BackendInv, Admitted, Opened
  <1>8. Drain'
    BY <1>1 DEF BackendInv, Drain
  <1>9. QED
    BY <1>5, <1>6, <1>7, <1>8 DEF BackendInv

LEMMA InvalidateKeeps ==
  ASSUME BackendInv, MonitorInvalidate
  PROVE  BackendInv'
  <1>1. /\ monitor.pc = "invalidate" /\ leases' = {}
        /\ req' = [r \in Requests |-> [req[r] EXCEPT !.reserved = FALSE]]
        /\ UNCHANGED <<state, inFlight, recVars, recycler, serve, starts, pstate, generation,
                       child, term, exit, event, stopped>>
    BY DEF MonitorInvalidate, InvalidateAll, coordVars, recVars, procVars
  <1>2. ASSUME NEW r \in Requests
        PROVE  /\ req'[r] \in Req /\ ~req'[r].reserved /\ req'[r].pc = req[r].pc
               /\ req'[r].gen = req[r].gen /\ req'[r].old = req[r].old
    <2>1. req'[r] = [req[r] EXCEPT !.reserved = FALSE] /\ req[r] \in Req
      BY <1>1, RequestFacts
    <2>2. QED
      BY <2>1 DEF Req
  <1>3. req' \in [Requests -> Req] /\ Busy' = Busy
    <2>1. req' = [r \in Requests |-> req'[r]]
      BY <1>1
    <2>2. QED
      BY <1>2, <2>1 DEF Busy
  <1>4. PICK active \in {0, monitor.active}, pc \in {"select", "fresh", "restart"} :
          /\ monitor' = [monitor EXCEPT !.active = active, !.pc = pc]
          /\ pc = "fresh" => monitor.why = "replaced" /\ active = 0
    <2>1. monitor \in Monitor
      BY RequestFacts
    <2>2. CASE monitor.why = "down"
      BY <2>1, <2>2 DEF MonitorInvalidate
    <2>3. CASE monitor.why = "replaced"
      BY <2>1, <2>3 DEF MonitorInvalidate
    <2>4. CASE monitor.why = "unready"
      BY <2>1, <2>4 DEF MonitorInvalidate
    <2>5. QED
      BY <2>1, <2>2, <2>3, <2>4 DEF Monitor
  <1>5. /\ monitor' \in Monitor /\ monitor'.pc = pc /\ monitor'.active = active
        /\ monitor'.gen = monitor.gen /\ active \in 0 .. generation
    <2>1. monitor \in Monitor /\ active \in 0 .. generation /\ active \in 0 .. MaxStarts
      BY RequestFacts DEF Monitor, BackendInv, Generations
    <2>2. QED
      BY <1>4, <2>1 DEF Monitor
  <1>6. BackendTypeOK'
    BY <1>1, <1>3, <1>5, MonitorTypes, Types DEF BackendInv
  <1>7. Generations'
    BY <1>1, <1>4, <1>5, RequestFacts DEF BackendInv, Generations, Found, Monitor
  <1>8. Admitted'
    BY <1>1, <1>2 DEF BackendInv, Admitted
  <1>9. Opened'
    BY <1>1, <1>5 DEF BackendInv, Opened
  <1>10. Drain'
    BY <1>1, <1>2 DEF BackendInv, Drain
  <1>11. QED
    BY <1>6, <1>7, <1>8, <1>9, <1>10 DEF BackendInv

LEMMA ReadyKeeps ==
  ASSUME BackendInv, MonitorReady
  PROVE  BackendInv'
  <1>1. /\ monitor.pc = "probing" /\ state' = "ready"
        /\ monitor' = [monitor EXCEPT !.pc = "select", !.active = monitor.gen]
        /\ UNCHANGED <<inFlight, req, leases, recVars, recycler, serve, starts, pstate,
                       generation, child, term, exit, event, stopped>>
        /\ Busy' = Busy
    BY DEF MonitorReady, recVars, procVars, Busy
  <1>2. /\ monitor' \in Monitor /\ monitor'.pc = "select" /\ monitor'.active = monitor.gen
        /\ monitor'.gen = monitor.gen
    BY <1>1, RequestFacts DEF Monitor
  <1>3. /\ monitor.gen # 0 /\ monitor.active \in {0, monitor.gen}
        /\ monitor.gen <= generation
    BY <1>1 DEF BackendInv, Generations, Found
  <1>4. BackendTypeOK'
    BY <1>1, <1>2, MonitorTypes, Types DEF BackendInv
  <1>5. Generations'
    BY <1>1, <1>2, <1>3 DEF BackendInv, Generations, Found
  <1>6. Admitted'
    BY <1>1, <1>2, <1>3 DEF BackendInv, Admitted
  <1>7. Opened'
    BY <1>2, <1>3 DEF Opened
  <1>8. Drain'
    BY <1>1 DEF BackendInv, Drain
  <1>9. QED
    BY <1>4, <1>5, <1>6, <1>7, <1>8 DEF BackendInv

---------------------------------------------------------------------------
LEMMA Initially == BackendInit => BackendInv
  <1> SUFFICES ASSUME BackendInit PROVE BackendInv
    OBVIOUS
  <1>1. \A r \in Requests : /\ req[r] \in Req /\ req[r].pc = "idle" /\ ~req[r].old
                            /\ ~req[r].reserved /\ req[r].gen = 0
    BY BackendAssumption DEF BackendInit, IdleReq, Req
  <1>2. req \in [Requests -> Req] /\ Busy = {}
    BY <1>1 DEF BackendInit, Busy
  <1>3. monitor \in Monitor /\ recycler \in Recycler
    BY BackendAssumption DEF BackendInit, Monitor, Recycler
  <1>4. inFlight = Cardinality(Busy)
    BY <1>2, FS_EmptySet DEF BackendInit
  <1>5. BackendTypeOK
    <2>1. MaxStarts \in Nat /\ MaxRecycles \in Nat
      BY BackendAssumption
    <2>2. /\ starts \in 0 .. MaxStarts /\ generation \in 0 .. starts
          /\ reported \in 0 .. MaxRecycles /\ recycles \in 0 .. reported
          /\ child \in {0, generation} /\ leases \subseteq 1 .. MaxStarts
      BY <2>1 DEF BackendInit
    <2>3. term \in BOOLEAN /\ event \in BOOLEAN /\ stopped \in BOOLEAN
      BY Zenon DEF BackendInit
    <2>4. /\ state \in {"probing", "ready", "draining", "recycling", "restarting"}
          /\ serve \in {"start", "spawn", "running", "wait", "over"}
          /\ pstate \in {"stopped", "starting", "running", "crashed", "failed"}
          /\ exit \in {"ok", "error"}
      BY DEF BackendInit
    <2>5. QED
      BY <1>2, <1>3, <1>4, <2>2, <2>3, <2>4, Types
  <1>6. Generations /\ Admitted /\ Opened /\ Drain
    BY <1>1 DEF BackendInit, Generations, Found, Admitted, Opened, Drain
  <1>7. QED
    BY <1>5, <1>6 DEF BackendInv

LEMMA Inductive == BackendInv /\ [BackendNext]_backendVars => BackendInv'
  <1> SUFFICES ASSUME BackendInv, [BackendNext]_backendVars PROVE BackendInv'
    OBVIOUS
  <1>1. CASE UNCHANGED backendVars
    BY <1>1
    DEF backendVars, coordVars, recVars, procVars, BackendInv, BackendTypeOK, Generations,
        Found, Admitted, Opened, Drain
  <1>2. QED
    BY <1>1, ProcessKeeps, RequestKeeps, RecycleStartKeeps, RecycleKeeps, MonitorMoves,
       InvalidateKeeps, ReadyKeeps
    DEF BackendNext, RecycleStep, MonitorStep

(* Every variable keeps its type; inFlight is the number of requests that  *)
(* were admitted and have not ended.                                       *)
THEOREM BackendTypes == BackendSpec => []BackendTypeOK
<1>1. BackendInv => BackendTypeOK
  BY DEF BackendInv
<1>2. QED
  BY Initially, Inductive, <1>1, PTL DEF BackendSpec

(* Recycle runs only when every request admitted before the drain began    *)
(* has ended, though new ones may enter when the monitor reopens the       *)
(* gateway in the middle of the drain.                                     *)
THEOREM DrainHolds == BackendSpec => []DrainWaits
<1>1. BackendInv => DrainWaits
  BY DEF BackendInv, Drain, DrainWaits
<1>2. QED
  BY Initially, Inductive, <1>1, PTL DEF BackendSpec

(* Whenever the gateway is open, no session of a process older than the    *)
(* one last found ready is left, whatever requests were under way when the *)
(* old one died and however often it was restarted.                        *)
THEOREM OldIdsHold == BackendSpec => []OldIdsInvalidated
<1>1. BackendInv => OldIdsInvalidated
  BY DEF BackendInv, Opened, Admitted, OldIdsInvalidated
<1>2. QED
  BY Initially, Inductive, <1>1, PTL DEF BackendSpec
=============================================================================
