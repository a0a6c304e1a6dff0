------------------------- MODULE PerSessionManager -------------------------
(***************************************************************************)
(* The per-session subprocess manager of a stateful stdio server           *)
(* (src/internal/session/manager.go): one subprocess for each downstream   *)
(* session id.  An operation is one critical section of the manager's      *)
(* lock, or the close of one transport, which runs outside it.  The module *)
(* has no next-state relation of its own: its steps are taken by the proxy *)
(* sessions of ProxySession, by the reaper and by the owner of the         *)
(* listener.                                                               *)
(***************************************************************************)
EXTENDS Naturals, FiniteSets

CONSTANTS
  Ids,          \* downstream session ids
  MaxSessions   \* max_sessions, 0 for no limit

VARIABLES
  session,    \* the table: an id is absent, reserved (nil entry) or held
  transport,  \* of each id, the SDK connection and with it the subprocess
  removal     \* of each id taken out of the table, how far its close is

managerVars == <<session, transport, removal>>

ManagerInit ==
  /\ session   = [i \in Ids |-> "absent"]
  /\ transport = [i \in Ids |-> "none"]
  /\ removal   = [i \in Ids |-> "none"]

ManagerTypeOK ==
  /\ session \in [Ids -> {"absent", "reserved", "held"}]
  /\ transport \in [Ids -> {"none", "open", "closed"}]
  /\ removal \in [Ids -> {"none", "notify", "gate", "close", "done"}]

AtCapacity ==
  MaxSessions > 0 /\ Cardinality({i \in Ids : session[i] # "absent"}) >= MaxSessions

(* SpawnSession: the place is taken before the lock is given up.           *)
Reserve(i) ==
  /\ session[i] = "absent" /\ ~AtCapacity
  /\ session' = [session EXCEPT ![i] = "reserved"]
  /\ UNCHANGED <<transport, removal>>

(* The command cannot be built, or the handshake fails.                    *)
SpawnFails(i) ==
  /\ session' = [session EXCEPT ![i] = "absent"]
  /\ UNCHANGED <<transport, removal>>

(* The entry is stored whatever became of the reservation meanwhile.       *)
Spawned(i) ==
  /\ session'   = [session EXCEPT ![i] = "held"]
  /\ transport' = [transport EXCEPT ![i] = "open"]
  /\ UNCHANGED removal

(* Connections of entries that are taken out get closed after the lock is  *)
(* given up: first the callbacks, then the connection.                     *)
TakeOut(S) ==
  /\ session' = [i \in Ids |-> IF i \in S THEN "absent" ELSE session[i]]
  /\ removal' = [i \in Ids |-> IF i \in S /\ session[i] = "held" THEN "notify"
                               ELSE removal[i]]
  /\ UNCHANGED transport

RemoveSession(i) == IF session[i] = "held" THEN TakeOut({i})
                    ELSE UNCHANGED managerVars

ReapExpiredSession(i) == session[i] = "held" /\ TakeOut({i})

CloseAll == TakeOut(Ids)

Notified(i, step) ==
  /\ removal[i] = "notify"
  /\ removal' = [removal EXCEPT ![i] = step]
  /\ UNCHANGED <<session, transport>>

Gated(i) ==
  /\ removal[i] = "gate"
  /\ removal' = [removal EXCEPT ![i] = "close"]
  /\ UNCHANGED <<session, transport>>

CloseTransport(i) ==
  /\ removal[i] = "close"
  /\ transport' = [transport EXCEPT ![i] = "closed"]
  /\ removal'   = [removal EXCEPT ![i] = "done"]
  /\ UNCHANGED session
=============================================================================
