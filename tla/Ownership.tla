----------------------------- MODULE Ownership -----------------------------
(***************************************************************************)
(* The ownership lease of one managed HTTP backend: Serve of its           *)
(* ManagedProcess (src/internal/supervisor/process.go), the lease file     *)
(* (src/internal/ownership/store.go), the reconciler that reclaims what an *)
(* earlier daemon left behind (reconcile.go, proc.go), and the registry    *)
(* and the daemon that call them.  The daemon may die at any step.         *)
(*                                                                         *)
(* The operating system is a set of process group ids.  A backend is the   *)
(* token its spawn put in the environment; its leader may leave a child    *)
(* behind, and a group id that is free may be taken by a foreign group.    *)
(* Three assumptions: an id is not handed out again between the last       *)
(* verification and the signal that follows it, nor before Serve has seen  *)
(* the exit of its leader; a scan of /proc finds every member of a group   *)
(* (ListMembers reads entry by entry: a member that forks and exits during *)
(* the scan could be missed); and a Serve that is not running when its     *)
(* server is stopped does not run any more (suture cancels it at once).    *)
(***************************************************************************)
EXTENDS Integers, FiniteSets

CONSTANTS
  Pgids,      \* process group ids
  MaxSpawns,  \* bound: backends ever spawned
  Policy,     \* restart_policy: "never", "on-failure" or "always"
  None

ASSUME OwnershipAssumption ==
  /\ IsFiniteSet(Pgids) /\ None \notin Pgids
  /\ MaxSpawns \in Nat
  /\ Policy \in {"never", "on-failure", "always"}

VARIABLES
  group,     \* the process groups
  lease,     \* the lease file
  svc,       \* the ManagedProcess and its Serve; pc "none": not registered
  ctl,       \* the goroutine that starts, stops and reconciles the server
  blocked,   \* startupBlocks has the server
  config,    \* the configuration the daemon was started with
  spawned,   \* tokens used so far
  disowned   \* history: backends whose cleanup failed, or whose daemon died
             \* before the lease was written

vars == <<group, lease, svc, ctl, blocked, config, spawned, disowned>>

Tokens  == 1 .. MaxSpawns
Foreign == 0
NoToken == -1

---------------------------------------------------------------------------
(* child: "ours" inherited the token, "scrubbed" cleared its environment;  *)
(* sig: the strongest signal the daemon has sent to the group.             *)
Group == [tok: Tokens \cup {Foreign, NoToken}, leader: BOOLEAN,
          child: {"none", "ours", "scrubbed"}, sig: {"none", "term", "kill"}]
Free  == [tok |-> NoToken, leader |-> FALSE, child |-> "none", sig |-> "none"]

(* What VerifyGroup compares: a token stands for the pid, the start time,  *)
(* the executable and the hash that go with it.                            *)
Lease == [tok: Tokens, pgid: Pgids, generation: 1 .. MaxSpawns, config: BOOLEAN]

ASSUME NoneAssumption == None \notin Lease

Svc == [pc: {"none", "backoff", "spawn", "record", "reap", "run", "term", "killed",
             "exited", "stopped", "exitRelease", "stopRelease", "done"},
        initial: BOOLEAN, cancelled: BOOLEAN, clean: BOOLEAN,
        tok: Tokens \cup {NoToken}, pgid: Pgids \cup {None},
        generation: 0 .. MaxSpawns, leaseActive: BOOLEAN,
        leasePgid: Pgids \cup {None}]
NoSvc  == [pc |-> "none", initial |-> TRUE, cancelled |-> FALSE, clean |-> FALSE,
           tok |-> NoToken, pgid |-> None, generation |-> 0, leaseActive |-> FALSE,
           leasePgid |-> None]
NewSvc == [NoSvc EXCEPT !.pc = "backoff"]

Ctl  == [pc: {"down", "list", "verify", "term", "waitTerm", "kill", "waitKill",
              "release", "start", "idle", "await"},
         lease: Lease \cup {None}]
Reconciling == {"list", "verify", "term", "waitTerm", "kill", "waitKill", "release"}

Init ==
  /\ group = [p \in Pgids |-> Free]
  /\ lease = None /\ svc = NoSvc
  /\ ctl = [pc |-> "down", lease |-> None]
  /\ blocked = FALSE /\ config = FALSE
  /\ spawned = 0 /\ disowned = {}

---------------------------------------------------------------------------
(* The operating system.                                                   *)

osOnly == <<lease, svc, ctl, blocked, config, spawned, disowned>>

Ours(p) == group[p].tok \in Tokens
Fork(p, kind) ==
  /\ Ours(p) /\ group[p].leader /\ group[p].child = "none" /\ group[p].sig # "kill"
  /\ group' = [group EXCEPT ![p].child = kind]
  /\ UNCHANGED osOnly

LeaderDies(p) ==
  /\ Ours(p) /\ group[p].leader
  /\ group' = [group EXCEPT ![p] = IF group[p].child = "none" THEN Free
                                   ELSE [group[p] EXCEPT !.leader = FALSE]]
  /\ UNCHANGED osOnly

ChildDies(p) ==
  /\ Ours(p) /\ group[p].child # "none"
  /\ group' = [group EXCEPT ![p] = IF group[p].leader
                                   THEN [group[p] EXCEPT !.child = "none"] ELSE Free]
  /\ UNCHANGED osOnly

(* An unreaped leader keeps its id.                                        *)
ForeignTakes(p) ==
  /\ group[p] = Free
  /\ svc.pgid = p => svc.pc \notin {"record", "reap", "run", "term", "killed"}
  /\ group' = [group EXCEPT ![p].tok = Foreign]
  /\ UNCHANGED osOnly

ForeignGoes(p) ==
  /\ group[p].tok = Foreign
  /\ group' = [group EXCEPT ![p] = Free]
  /\ UNCHANGED osOnly

(* A signal to a group.  SIGTERM forces nothing: a process may exit or     *)
(* fork after it as before.                                                *)
Signalled(p, sig) ==
  IF group[p] = Free \/ group[p].sig = "kill" THEN group
  ELSE [group EXCEPT ![p].sig = sig]

---------------------------------------------------------------------------
(* Serve.                                                                  *)

svcOnly == <<ctl, blocked, config, spawned>>

LeaderGone == ~(group[svc.pgid].tok = svc.tok /\ group[svc.pgid].leader)

(* finishExit: suture runs Serve again unless the policy declines or the   *)
(* service was removed.                                                    *)
Finished(failed) ==
  [svc EXCEPT !.pc = IF /\ ~svc.cancelled
                        /\ Policy = "always" \/ (Policy = "on-failure" /\ failed)
                     THEN "backoff" ELSE "done",
              !.initial = FALSE, !.clean = FALSE, !.tok = NoToken, !.pgid = None]

BeforeStart ==
  /\ svc.pc = "backoff"
  /\ svc' = [svc EXCEPT !.pc = "spawn"]
  /\ UNCHANGED <<group, lease, disowned>> /\ UNCHANGED svcOnly

RestartLimit ==
  /\ svc.pc = "backoff" /\ ~svc.initial
  /\ svc' = [svc EXCEPT !.pc = "done"]
  /\ UNCHANGED <<group, lease, disowned>> /\ UNCHANGED svcOnly

Spawn(p) ==
  /\ svc.pc = "spawn" /\ spawned < MaxSpawns /\ group[p] = Free
  /\ spawned' = spawned + 1
  /\ group' = [group EXCEPT ![p] = [Free EXCEPT !.tok = spawned + 1, !.leader = TRUE]]
  /\ svc' = [svc EXCEPT !.pc = "record", !.tok = spawned + 1, !.pgid = p]
  /\ UNCHANGED <<lease, ctl, blocked, config, disowned>>

SpawnFails ==
  /\ svc.pc = "spawn"
  /\ svc' = Finished(TRUE)
  /\ UNCHANGED <<group, lease, disowned>> /\ UNCHANGED svcOnly

NewLease == [tok |-> svc.tok, pgid |-> svc.pgid, generation |-> svc.generation + 1,
             config |-> config]

(* An exited leader has no executable to read.                             *)
RecordLease ==
  /\ svc.pc = "record" /\ ~LeaderGone
  /\ lease' = NewLease
  /\ svc' = [svc EXCEPT !.pc = "run", !.generation = @ + 1, !.leaseActive = TRUE,
                        !.leasePgid = svc.pgid]
  /\ UNCHANGED <<group, disowned>> /\ UNCHANGED svcOnly

(* terminate and forceKill go to the group of the lease that is still      *)
(* active, if one is.                                                      *)
SignalTarget == IF svc.leaseActive THEN svc.leasePgid ELSE svc.pgid

(* The file may be in place although Record returned an error: the         *)
(* directory sync comes after the rename.                                  *)
RecordFails(installed) ==
  /\ svc.pc = "record" /\ (installed => ~LeaderGone)
  /\ lease' = IF installed THEN NewLease ELSE lease
  /\ group' = Signalled(SignalTarget, "kill")
  /\ svc' = [svc EXCEPT !.pc = "reap"]
  /\ disowned' = disowned \cup {svc.tok}
  /\ UNCHANGED svcOnly

(* Wait, and waitGroupEmpty whose error is dropped.                        *)
Reaped ==
  /\ svc.pc = "reap" /\ LeaderGone
  /\ svc' = Finished(TRUE)
  /\ UNCHANGED <<group, lease, disowned>> /\ UNCHANGED svcOnly

Exited(clean) ==
  /\ svc.pc = "run" /\ LeaderGone
  /\ svc' = [svc EXCEPT !.pc = "exited", !.clean = clean]
  /\ UNCHANGED <<group, lease, disowned>> /\ UNCHANGED svcOnly

Terminate ==
  /\ svc.pc = "run" /\ svc.cancelled
  /\ group' = Signalled(SignalTarget, "term")
  /\ svc' = [svc EXCEPT !.pc = "term"]
  /\ UNCHANGED <<lease, disowned>> /\ UNCHANGED svcOnly

TermTimeout ==
  /\ svc.pc = "term"
  /\ group' = Signalled(SignalTarget, "kill")
  /\ svc' = [svc EXCEPT !.pc = "killed"]
  /\ UNCHANGED <<lease, disowned>> /\ UNCHANGED svcOnly

Terminated ==
  /\ svc.pc \in {"term", "killed"} /\ LeaderGone
  /\ svc' = [svc EXCEPT !.pc = "stopped"]
  /\ UNCHANGED <<group, lease, disowned>> /\ UNCHANGED svcOnly

LeaderIsEnough ==         \* mutant: the group is taken for empty with its leader
  /\ svc.pc \in {"exited", "stopped"}
  /\ svc' = [svc EXCEPT !.pc = IF @ = "exited" THEN "exitRelease" ELSE "stopRelease"]
  /\ UNCHANGED <<group, lease, disowned>> /\ UNCHANGED svcOnly

(* waitGroupEmpty sees no member, or its timer fires first.                *)
GroupEmpty ==
  /\ svc.pc \in {"exited", "stopped"} /\ group[svc.leasePgid] = Free
  /\ svc' = [svc EXCEPT !.pc = IF @ = "exited" THEN "exitRelease" ELSE "stopRelease"]
  /\ UNCHANGED <<group, lease, disowned>> /\ UNCHANGED svcOnly

GroupLingers ==
  /\ svc.pc \in {"exited", "stopped"} /\ group[svc.leasePgid] # Free
  /\ svc' = IF svc.pc = "exited" THEN Finished(TRUE)
                                 ELSE [Finished(TRUE) EXCEPT !.pc = "done"]
  /\ disowned' = disowned \cup {svc.tok}
  /\ UNCHANGED <<group, lease>> /\ UNCHANGED svcOnly

(* The lease may have been replaced, the unlink may fail, and the file may *)
(* be gone although the directory sync after the unlink failed.            *)
Current == lease # None /\ lease.generation = svc.generation
ReleaseGeneration(removed, synced) ==
  /\ svc.pc \in {"exitRelease", "stopRelease"}
  /\ removed => Current
  /\ synced => removed
  /\ lease' = IF removed THEN None ELSE lease
  /\ LET s == Finished(~svc.clean \/ ~synced) IN
       svc' = [s EXCEPT !.pc = IF svc.pc = "exitRelease" THEN @ ELSE "done",
                        !.leaseActive = ~synced,
                        !.leasePgid = IF synced THEN None ELSE @]
  /\ UNCHANGED <<group, disowned>> /\ UNCHANGED svcOnly

Serve ==
  \/ BeforeStart \/ RestartLimit
  \/ SpawnFails \/ \E p \in Pgids : Spawn(p)
  \/ RecordLease \/ \E installed \in BOOLEAN : RecordFails(installed)
  \/ Reaped \/ \E clean \in BOOLEAN : Exited(clean)
  \/ Terminate \/ TermTimeout \/ Terminated
  \/ GroupEmpty \/ GroupLingers
  \/ \E removed, synced \in BOOLEAN : ReleaseGeneration(removed, synced)

---------------------------------------------------------------------------
(* The reconciler, at the start of the daemon or as the startup guard of a *)
(* server that is blocked.                                                 *)

ctlOnly == <<svc, config, spawned, disowned>>

(* VerifyGroup.  Anything /proc or the file refuses to tell is "unknown".  *)
Verdict(l) ==
  LET g == group[l.pgid] IN
  IF l.config # config THEN "conflict"
  ELSE IF g = Free THEN "dead"
  ELSE IF g.tok = l.tok /\ g.child # "scrubbed" THEN "owned"
  ELSE "conflict"
Verdicts(l) == {Verdict(l), "unknown"}

Goto(pc) == ctl' = [ctl EXCEPT !.pc = pc]
Block   == ctl' = [pc |-> "idle", lease |-> None] /\ blocked' = TRUE
Proceed == ctl' = [pc |-> "start", lease |-> None] /\ blocked' = FALSE

List ==
  /\ ctl.pc = "list"
  /\ IF lease = None THEN Proceed
     ELSE \/ ctl' = [pc |-> "verify", lease |-> lease] /\ UNCHANGED blocked
          \/ Block
  /\ UNCHANGED <<group, lease>> /\ UNCHANGED ctlOnly

FirstVerify(v) ==
  /\ ctl.pc = "verify"
  /\ CASE v = "dead"  -> Goto("release") /\ UNCHANGED blocked
       [] v = "owned" -> Goto("term") /\ UNCHANGED blocked
       [] OTHER       -> Block
  /\ UNCHANGED <<group, lease>> /\ UNCHANGED ctlOnly

TermUnverified(v) ==      \* mutant: the first verification is trusted
  /\ ctl.pc = "term"
  /\ group' = Signalled(ctl.lease.pgid, "term") /\ Goto("waitTerm") /\ UNCHANGED blocked
  /\ UNCHANGED lease /\ UNCHANGED ctlOnly

(* Verified again right before the SIGTERM.                                *)
SignalTerm(v) ==
  /\ ctl.pc = "term"
  /\ IF v = "owned"
     THEN /\ group' = Signalled(ctl.lease.pgid, "term")
          /\ Goto("waitTerm") /\ UNCHANGED blocked
     ELSE Block /\ UNCHANGED group
  /\ UNCHANGED lease /\ UNCHANGED ctlOnly

(* The waiter verifies until the group is dead, until it has changed, or   *)
(* until the timeout.                                                      *)
WaitTerm(v) ==
  /\ ctl.pc = "waitTerm"
  /\ CASE v = "dead"  -> Goto("release") /\ UNCHANGED blocked
       [] v = "owned" -> Goto("kill") /\ UNCHANGED blocked
       [] OTHER       -> Block
  /\ UNCHANGED <<group, lease>> /\ UNCHANGED ctlOnly

SignalKill(v) ==
  /\ ctl.pc = "kill"
  /\ IF v = "owned"
     THEN /\ group' = Signalled(ctl.lease.pgid, "kill")
          /\ Goto("waitKill") /\ UNCHANGED blocked
     ELSE Block /\ UNCHANGED group
  /\ UNCHANGED lease /\ UNCHANGED ctlOnly

WaitKillHopes(v) ==       \* mutant: SIGKILL is trusted to have worked
  /\ ctl.pc = "waitKill"
  /\ Goto("release") /\ UNCHANGED blocked
  /\ UNCHANGED <<group, lease>> /\ UNCHANGED ctlOnly

WaitKill(v) ==
  /\ ctl.pc = "waitKill"
  /\ IF v = "dead" THEN Goto("release") /\ UNCHANGED blocked ELSE Block
  /\ UNCHANGED <<group, lease>> /\ UNCHANGED ctlOnly

(* It may fail as ReleaseGeneration may, with the file gone or not.        *)
ReleaseIfCurrent ==
  /\ ctl.pc = "release"
  /\ \/ lease = ctl.lease /\ lease' = None /\ (Proceed \/ Block)
     \/ UNCHANGED lease /\ Block
  /\ UNCHANGED group /\ UNCHANGED ctlOnly

Reconcile ==
  \/ List \/ ReleaseIfCurrent
  \/ /\ ctl.pc \in {"verify", "term", "waitTerm", "kill", "waitKill"}
     /\ \E v \in Verdicts(ctl.lease) :
          \/ FirstVerify(v) \/ SignalTerm(v) \/ WaitTerm(v)
          \/ SignalKill(v) \/ WaitKill(v)

---------------------------------------------------------------------------
(* The registry and the daemon.                                            *)

(* AddServer; a server that is still registered is an error.               *)
StartServer ==
  /\ ctl.pc = "start"
  /\ svc' = IF svc.pc = "none" THEN NewSvc ELSE svc
  /\ Goto("idle")
  /\ UNCHANGED <<group, lease, blocked, config, spawned, disowned>>

(* A start of a blocked server runs the guard first.                       *)
StartBlocked ==
  /\ ctl.pc = "idle" /\ blocked /\ svc.pc = "none"
  /\ Goto("list")
  /\ UNCHANGED <<group, lease, blocked>> /\ UNCHANGED ctlOnly

(* Restart: a Serve that is running is waited for, any other is removed.   *)
StopServer ==
  /\ ctl.pc = "idle" /\ svc.pc # "none"
  /\ IF svc.pc \in {"backoff", "done"}
     THEN svc' = NoSvc /\ Goto("start")
     ELSE svc' = [svc EXCEPT !.cancelled = TRUE] /\ Goto("await")
  /\ UNCHANGED <<group, lease, blocked, config, spawned, disowned>>

Removed ==
  /\ ctl.pc = "await" /\ svc.pc = "done"
  /\ svc' = NoSvc /\ Goto("start")
  /\ UNCHANGED <<group, lease, blocked, config, spawned, disowned>>

RemoveTimeout ==
  /\ ctl.pc = "await" /\ svc.pc # "done"
  /\ Goto("idle")
  /\ UNCHANGED <<group, lease, blocked>> /\ UNCHANGED ctlOnly

DaemonStarts(edited) ==
  /\ ctl.pc = "down"
  /\ config' = edited /\ Goto("list")
  /\ UNCHANGED <<group, lease, svc, blocked, spawned, disowned>>

(* The children stay, as orphans of init.                                  *)
DaemonDies ==
  /\ ctl.pc # "down"
  /\ svc' = NoSvc
  /\ ctl' = [pc |-> "down", lease |-> None]
  /\ blocked' = FALSE
  /\ disowned' = disowned \cup (IF svc.pc = "record" THEN {svc.tok} ELSE {})
  /\ UNCHANGED <<group, lease, config, spawned>>

Control ==
  \/ StartServer \/ StartBlocked \/ StopServer \/ Removed \/ RemoveTimeout
  \/ DaemonDies \/ \E edited \in BOOLEAN : DaemonStarts(edited)

System ==
  \E p \in Pgids : \/ \E kind \in {"ours", "scrubbed"} : Fork(p, kind)
                   \/ LeaderDies(p) \/ ChildDies(p)
                   \/ ForeignTakes(p) \/ ForeignGoes(p)

Next == Serve \/ Reconcile \/ Control \/ System

Spec == Init /\ [][Next]_vars

(* The reconciler's waits have timeouts, and a killed process dies.        *)
FairSpec ==
  /\ Spec
  /\ WF_vars(Reconcile) /\ WF_vars(Serve)

---------------------------------------------------------------------------
TypeOK ==
  /\ group \in [Pgids -> Group]
  /\ lease \in Lease \cup {None}
  /\ svc \in Svc /\ ctl \in Ctl
  /\ blocked \in BOOLEAN /\ config \in BOOLEAN
  /\ spawned \in 0 .. MaxSpawns
  /\ disowned \subseteq Tokens

Alive(t) == \E p \in Pgids : group[p].tok = t

(* What the leases are for: a backend that runs is named by the lease, is  *)
(* about to be, or its cleanup was reported as failed; a backend is only   *)
(* spawned when every other one is gone or was given up; and an entry is   *)
(* only erased or replaced when its backend is gone or given up.  Through  *)
(* crashes of the daemon, failed records and releases and edited           *)
(* configurations.  A group that outlives its leader and the shutdown      *)
(* timeout counts as given up: the next record may overwrite its lease.    *)
C == INSTANCE Custody WITH
       Backends <- Tokens, Nobody <- NoToken,
       live     <- {t \in Tokens : Alive(t)},
       booked   <- IF lease = None THEN NoToken ELSE lease.tok,
       pending  <- IF svc.pc = "record" THEN {svc.tok} ELSE {},
       givenUp  <- disowned
ImplementsCustody == C!CustodySpec

(* The reconciler never signals a group it has not just verified: not a    *)
(* foreign group under a reused id, not one with a member it does not      *)
(* know; and it kills only a group that had its SIGTERM before.            *)
ReclaimSparesOthers ==
  [][\A p \in Pgids :
       (ctl.pc \in Reconciling /\ ctl' # ctl /\ group'[p] # group[p])
         => /\ group[p].tok = lease.tok /\ group[p].child # "scrubbed"
            /\ group'[p].sig = "kill" => group[p].sig = "term"]_vars

(* A backend that an earlier daemon left behind, or that a blocked server  *)
(* is reconciled for once more, is gone before the server starts, or the   *)
(* reconciler ends and the server is blocked.                              *)
OrphanReclaimedOrBlocks ==
  \A t \in Tokens :
    (ctl.pc \in Reconciling /\ lease # None /\ lease.tok = t /\ Alive(t))
      ~> (~Alive(t) \/ (blocked /\ ctl.pc \notin Reconciling) \/ ctl.pc = "down")

(* supervisor.go:109: "callers must not clear a process reference or its   *)
(* ownership lease before process-group cleanup ends".  When a stop clears *)
(* the reference, the group the lease names is gone or has been killed.    *)
StopEndsCleanup ==
  [][(svc.pc # "none" /\ svc'.pc = "none" /\ ctl'.pc = "start")
       => lease = None
          \/ \A p \in Pgids : group[p].tok = lease.tok => group[p].sig = "kill"]_vars
=============================================================================
