------------------------------ MODULE Custody ------------------------------
(***************************************************************************)
(* What the ownership leases promise, without processes, files or signals. *)
(* A backend is a spawn; the daemon keeps one book entry per server.  A    *)
(* backend that runs is in the book, or in the hands of the goroutine that *)
(* has not booked it yet, or somebody has given it up: its cleanup was     *)
(* reported as failed, or the daemon died before it could book it.         *)
(***************************************************************************)
EXTENDS FiniteSets

CONSTANTS
  Backends,  \* spawns of one server
  Nobody     \* no backend

VARIABLES
  live,      \* backends with a running process
  booked,    \* the backend the lease names
  pending,   \* backends spawned and not booked yet
  givenUp    \* backends somebody has given up

custodyVars == <<live, booked, pending, givenUp>>

CustodyInit == live = {} /\ booked = Nobody /\ pending = {} /\ givenUp = {}

(* A backend starts only when every other one is gone or given up.         *)
Begin(b) ==
  /\ b \notin live \cup givenUp
  /\ live \subseteq givenUp
  /\ live' = live \cup {b} /\ pending' = pending \cup {b}
  /\ UNCHANGED <<booked, givenUp>>

(* Only a backend that is gone or given up loses its entry to another.     *)
Book(b) ==
  /\ b \in pending
  /\ booked \in live => booked \in givenUp
  /\ booked' = b /\ pending' = pending \ {b}
  /\ givenUp' \in {givenUp, givenUp \cup {b}}
  /\ UNCHANGED live

(* The entry is erased only after the backend is gone.                     *)
Erase ==
  /\ booked \notin live
  /\ booked' = Nobody
  /\ UNCHANGED <<live, pending, givenUp>>

GiveUp(b) ==
  /\ b \in live \cup {booked} \cup pending
  /\ givenUp' = givenUp \cup {b} /\ pending' = pending \ {b}
  /\ UNCHANGED <<live, booked>>

End(b) ==
  /\ b \in live
  /\ live' = live \ {b}
  /\ UNCHANGED <<booked, pending, givenUp>>

CustodyNext ==
  \/ \E b \in Backends : Begin(b) \/ Book(b) \/ GiveUp(b) \/ End(b)
  \/ Erase

CustodySpec == CustodyInit /\ [][CustodyNext]_custodyVars

(* Every running backend can be found again, or was given up in the open.  *)
Accounted == live \subseteq {booked} \cup pending \cup givenUp

(* Two backends of one server run together only if one was given up.       *)
OneInCharge == \A b, c \in live \ givenUp : b = c
=============================================================================
