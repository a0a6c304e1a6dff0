------------------------- MODULE OwnershipProofs -------------------------
(***************************************************************************)
(* Proofs about Ownership, for any process group ids, any number of spawns *)
(* and any restart policy: the leases implement Custody, and the           *)
(* reconciler only signals groups it has just verified.  What follows of   *)
(* Custody is proved at the end.                                           *)
(***************************************************************************)
EXTENDS Ownership, TLAPS

(* Positions of Serve at which the lease names the backend of Serve.       *)
Holding == {"run", "term", "killed", "exited", "stopped", "exitRelease", "stopRelease"}

(* Tokens are used once, in the order of the spawns.                       *)
Fresh ==
  /\ \A p \in Pgids : group[p].tok <= spawned
  /\ lease # None => lease.tok <= spawned
  /\ svc.tok <= spawned /\ \A t \in disowned : t <= spawned

(* A generation is recorded after a spawn of its own.                      *)
Generations ==
  svc.generation <= spawned /\ (svc.pc = "record" => svc.generation < spawned)

(* A backend lives in one group, and whoever holds its token knows which.  *)
OneGroup ==
  \A p, q \in Pgids : group[p].tok \in Tokens /\ group[p].tok = group[q].tok => p = q

LeaseNames == lease # None => \A p \in Pgids : group[p].tok = lease.tok => p = lease.pgid

ServeHolds ==
  /\ svc.pc \in {"record", "reap"} \cup Holding =>
       /\ svc.tok \in Tokens /\ svc.tok <= spawned /\ svc.pgid \in Pgids
       /\ \A p \in Pgids : group[p].tok = svc.tok => p = svc.pgid
  /\ svc.pc \in Holding => /\ lease # None /\ lease.tok = svc.tok
                           /\ svc.leasePgid = svc.pgid
  /\ svc.pc \in {"exitRelease", "stopRelease"} => ~Alive(svc.tok)
  /\ svc.pc = "reap" => svc.tok \in disowned
  /\ svc.pc = "record" /\ lease # None => lease.tok # svc.tok

(* A backend nobody has given up is in the hands of Serve, or in the lease *)
(* while no Serve exists and none is about to.                             *)
Custodian ==
  \A t \in Tokens :
    Alive(t) /\ t \notin disowned =>
      \/ svc.pc \in {"record"} \cup Holding /\ svc.tok = t
      \/ svc.pc = "none" /\ ctl.pc # "start" /\ lease # None /\ lease.tok = t

(* The group that the lease names has had its SIGTERM.                     *)
Warned == \A p \in Pgids : group[p].tok = lease.tok => group[p].sig # "none"

(* The reconciler runs before Serve does, on the lease that is in place.   *)
ReconcilesAlone ==
  /\ ctl.pc \in Reconciling \cup {"down", "start"} => svc.pc = "none"
  /\ ctl.pc \in Reconciling \ {"list"} => lease # None /\ ctl.lease = lease
  /\ ctl.pc = "release" => ~Alive(lease.tok)
  /\ ctl.pc \in {"waitTerm", "kill"} => Warned

IInv ==
  /\ TypeOK /\ Fresh /\ Generations /\ OneGroup /\ LeaseNames /\ ServeHolds /\ Custodian
  /\ ReconcilesAlone

---------------------------------------------------------------------------
(* What a step does to the groups, short of a spawn: a backend may vanish, *)
(* none appears.                                                           *)
NoneAppears ==
  \A p \in Pgids : group'[p].tok = group[p].tok \/ group'[p].tok \notin Tokens

LEMMA Numbers ==
  /\ MaxSpawns \in Nat /\ Tokens \subseteq Nat
  /\ Foreign \notin Tokens /\ NoToken \notin Tokens
  /\ Free \in Group /\ Free.tok = NoToken
  BY OwnershipAssumption DEF Tokens, Foreign, NoToken, Free, Group

LEMMA GroupFrame ==
  ASSUME IInv, TypeOK', NoneAppears, UNCHANGED spawned,
         lease' = lease \/ lease' = None,
         disowned' \subseteq disowned \cup {svc.tok},
         svc'.tok \in {svc.tok, NoToken}
  PROVE  /\ Fresh' /\ OneGroup' /\ LeaseNames'
         /\ \A t \in Tokens : (\E p \in Pgids : group'[p].tok = t) => Alive(t)
  <1>1. \A p \in Pgids : group'[p].tok \in Tokens => group'[p].tok = group[p].tok
    BY DEF NoneAppears
  <1>2. \A p \in Pgids : group'[p].tok <= spawned
    <2> TAKE p \in Pgids
    <2>1. group'[p].tok \in Tokens \cup {Foreign, NoToken}
      BY DEF TypeOK, Group
    <2>2. CASE group'[p].tok \in Tokens
      BY <1>1, <2>2 DEF IInv, Fresh
    <2>3. CASE group'[p].tok \in {Foreign, NoToken}
      BY <2>3, OwnershipAssumption DEF IInv, TypeOK, Foreign, NoToken
    <2>4. QED
      BY <2>1, <2>2, <2>3
  <1>3. svc'.tok <= spawned /\ \A t \in disowned' : t <= spawned
    BY OwnershipAssumption DEF IInv, Fresh, TypeOK, NoToken
  <1>4. Fresh'
    BY <1>2, <1>3 DEF IInv, Fresh
  <1>5. OneGroup'
    BY <1>1 DEF IInv, OneGroup
  <1>6. LeaseNames'
    <2> SUFFICES ASSUME lease' # None, NEW p \in Pgids, group'[p].tok = lease'.tok
                 PROVE  p = lease'.pgid
      BY DEF LeaseNames
    <2>1. lease' = lease /\ lease.tok \in Tokens
      BY DEF IInv, TypeOK, Lease
    <2>2. QED
      BY <1>1, <2>1 DEF IInv, LeaseNames
  <1>7. QED
    BY <1>1, <1>4, <1>5, <1>6 DEF Alive

---------------------------------------------------------------------------
(* The operating system.                                                   *)
LEMMA SystemKeeps == IInv /\ System => IInv'
  <1> SUFFICES ASSUME IInv, System PROVE IInv'
    OBVIOUS
  <1>1. UNCHANGED osOnly
    BY DEF System, Fork, LeaderDies, ChildDies, ForeignTakes, ForeignGoes
  <1> DEFINE SigsStay == \A q \in Pgids : group'[q].tok \in Tokens => group'[q].sig = group[q].sig
  <1>2. group' \in [Pgids -> Group] /\ NoneAppears /\ SigsStay
    <2>1. group \in [Pgids -> Group]
      BY DEF IInv, TypeOK
    <2>2. ASSUME NEW p \in Pgids, NEW kind \in {"ours", "scrubbed"}, Fork(p, kind)
          PROVE  group' \in [Pgids -> Group] /\ NoneAppears /\ SigsStay
      BY <2>1, <2>2 DEF Fork, Group, NoneAppears, SigsStay, Ours
    <2>3. ASSUME NEW p \in Pgids, LeaderDies(p)
          PROVE  group' \in [Pgids -> Group] /\ NoneAppears /\ SigsStay
      BY <2>1, <2>3, Numbers DEF LeaderDies, Group, NoneAppears, SigsStay, Ours
    <2>4. ASSUME NEW p \in Pgids, ChildDies(p)
          PROVE  group' \in [Pgids -> Group] /\ NoneAppears /\ SigsStay
      BY <2>1, <2>4, Numbers DEF ChildDies, Group, NoneAppears, SigsStay, Ours
    <2>5. ASSUME NEW p \in Pgids, ForeignTakes(p)
          PROVE  group' \in [Pgids -> Group] /\ NoneAppears /\ SigsStay
      BY <2>1, <2>5, Numbers DEF ForeignTakes, Group, NoneAppears, SigsStay, Ours
    <2>6. ASSUME NEW p \in Pgids, ForeignGoes(p)
          PROVE  group' \in [Pgids -> Group] /\ NoneAppears /\ SigsStay
      BY <2>1, <2>6, Numbers DEF ForeignGoes, Group, NoneAppears, SigsStay, Ours
    <2>7. QED
      BY <2>2, <2>3, <2>4, <2>5, <2>6 DEF System
  <1>3. TypeOK'
    BY <1>1, <1>2 DEF IInv, TypeOK, osOnly
  <1>4. /\ Fresh' /\ OneGroup' /\ LeaseNames'
        /\ \A t \in Tokens : (\E p \in Pgids : group'[p].tok = t) => Alive(t)
    <2>1. UNCHANGED <<lease, svc, spawned, disowned>>
      BY <1>1 DEF osOnly
    <2>2. QED
      BY <1>2, <1>3, <2>1, GroupFrame
  <1>5. ServeHolds'
    BY <1>1, <1>2, <1>4 DEF IInv, ServeHolds, osOnly, NoneAppears, Alive, Holding
  <1>6. Custodian'
    BY <1>1, <1>4 DEF IInv, Custodian, osOnly, Alive
  <1>7. ReconcilesAlone'
    <2>1. lease # None => lease.tok \in Tokens
      BY DEF IInv, TypeOK, Lease
    <2>2. ctl'.pc \in {"waitTerm", "kill"} => Warned'
      BY <1>1, <1>2, <2>1
      DEF IInv, ReconcilesAlone, Reconciling, Warned, osOnly, NoneAppears
    <2>3. QED
      BY <1>1, <1>4, <2>1, <2>2 DEF IInv, ReconcilesAlone, Reconciling, osOnly, Alive
  <1>8. QED
    BY <1>1, <1>3, <1>4, <1>5, <1>6, <1>7 DEF IInv, Generations, osOnly

---------------------------------------------------------------------------
(* Serve.                                                                  *)
LEMMA SvcTyped ==
  ASSUME TypeOK, NEW failed \in BOOLEAN
  PROVE  /\ Finished(failed) \in Svc
         /\ Finished(failed).tok = NoToken
         /\ Finished(failed).pc \in {"backoff", "done"}
         /\ Finished(failed).generation = svc.generation
         /\ [Finished(failed) EXCEPT !.pc = "done"] \in Svc
         /\ [Finished(failed) EXCEPT !.pc = "done"].tok = NoToken
         /\ [Finished(failed) EXCEPT !.pc = "done"].pc = "done"
         /\ [Finished(failed) EXCEPT !.pc = "done"].generation = svc.generation
  <1>1. PICK pc \in {"backoff", "done"} :
          Finished(failed) = [svc EXCEPT !.pc = pc, !.initial = FALSE, !.clean = FALSE,
                                         !.tok = NoToken, !.pgid = None]
    BY DEF Finished
  <1>2. svc \in Svc
    BY DEF TypeOK
  <1>3. QED
    BY <1>1, <1>2 DEF Svc

(* While Serve runs, a step of it leaves the reconciler out.               *)
LEMMA ServeAlone ==
  ASSUME IInv, svc.pc # "none", svc'.pc # "none", UNCHANGED ctl
  PROVE  ReconcilesAlone'
  BY DEF IInv, ReconcilesAlone, Reconciling

(* A step that changes only the position of Serve.                         *)
LEMMA PositionKeeps ==
  ASSUME IInv, UNCHANGED <<group, lease, disowned>>, UNCHANGED svcOnly,
         svc' \in Svc, svc.pc # "none", svc'.pc # "none", svc'.generation = svc.generation,
         \/ svc'.tok \in {svc.tok, NoToken} /\ svc'.pc \in {"backoff", "spawn", "done"}
            /\ (svc.pc \in {"record"} \cup Holding => ~Alive(svc.tok) \/ svc.tok \in disowned)
         \/ /\ svc'.tok = svc.tok /\ svc'.pgid = svc.pgid /\ svc'.leasePgid = svc.leasePgid
            /\ svc.pc \in Holding /\ svc'.pc \in Holding
            /\ svc'.pc \in {"exitRelease", "stopRelease"} => ~Alive(svc.tok)
  PROVE  IInv'
  <1>1. TypeOK'
    BY DEF IInv, TypeOK, svcOnly
  <1>2. NoneAppears /\ svc'.tok \in {svc.tok, NoToken}
    BY DEF NoneAppears
  <1>3. /\ Fresh' /\ OneGroup' /\ LeaseNames'
    BY <1>1, <1>2, GroupFrame DEF svcOnly
  <1>4. ServeHolds'
    BY <1>3 DEF IInv, ServeHolds, Fresh, Holding, Alive
  <1>5. Custodian'
    BY DEF IInv, Custodian, Holding, Alive, svcOnly
  <1>6. ReconcilesAlone'
    BY ServeAlone DEF svcOnly
  <1>7. QED
    BY <1>1, <1>3, <1>4, <1>5, <1>6 DEF IInv, Generations, Holding, svcOnly

LEMMA ServeMoves ==
  IInv /\ (BeforeStart \/ RestartLimit \/ SpawnFails \/ Reaped
           \/ (\E clean \in BOOLEAN : Exited(clean)) \/ Terminated) => IInv'
  <1> SUFFICES ASSUME IInv,
                      BeforeStart \/ RestartLimit \/ SpawnFails \/ Reaped
                      \/ (\E clean \in BOOLEAN : Exited(clean)) \/ Terminated
               PROVE  IInv'
    OBVIOUS
  <1>1. TypeOK /\ svc \in Svc
    BY DEF IInv, TypeOK
  <1>2. CASE BeforeStart
    BY <1>1, <1>2, PositionKeeps DEF BeforeStart, Svc, Holding
  <1>3. CASE RestartLimit
    BY <1>1, <1>3, PositionKeeps DEF RestartLimit, Svc, Holding
  <1>4. CASE SpawnFails
    BY <1>1, <1>4, SvcTyped, PositionKeeps DEF SpawnFails, Holding
  <1>5. CASE Reaped
    BY <1>1, <1>5, SvcTyped, PositionKeeps DEF Reaped, Holding
  <1>6. ASSUME NEW clean \in BOOLEAN, Exited(clean) PROVE IInv'
    BY <1>1, <1>6, PositionKeeps DEF Exited, Svc, Holding
  <1>7. CASE Terminated
    BY <1>1, <1>7, PositionKeeps DEF Terminated, Svc, Holding
  <1>8. QED
    BY <1>2, <1>3, <1>4, <1>5, <1>6, <1>7

LEMMA GroupEmptyKeeps == IInv /\ GroupEmpty => IInv'
  <1> SUFFICES ASSUME IInv, GroupEmpty PROVE IInv'
    OBVIOUS
  <1>1. svc \in Svc /\ svc.pc \in Holding /\ svc.tok \in Tokens
    BY DEF IInv, TypeOK, GroupEmpty, ServeHolds, Holding
  <1>2. ~Alive(svc.tok)
    BY <1>1, Numbers DEF IInv, ServeHolds, GroupEmpty, Alive, Holding
  <1>3. /\ svc' \in Svc /\ svc'.pc \in Holding \ {"none"}
        /\ svc'.tok = svc.tok /\ svc'.pgid = svc.pgid
        /\ svc'.leasePgid = svc.leasePgid /\ svc'.generation = svc.generation
    BY <1>1 DEF GroupEmpty, Svc, Holding
  <1>4. QED
    BY <1>1, <1>2, <1>3, PositionKeeps DEF GroupEmpty, Holding

LEMMA GroupLingersKeeps == IInv /\ GroupLingers => IInv'
  <1> SUFFICES ASSUME IInv, GroupLingers PROVE IInv'
    OBVIOUS
  <1>1. svc.pc \in Holding /\ svc.tok \in Tokens /\ svc.tok <= spawned
    BY DEF IInv, TypeOK, GroupLingers, ServeHolds, Holding
  <1>2. /\ svc' \in Svc /\ svc'.tok = NoToken /\ svc'.pc \in {"backoff", "done"}
        /\ svc'.generation = svc.generation
    BY SvcTyped DEF IInv, GroupLingers
  <1>3. TypeOK' /\ NoneAppears
    BY <1>1, <1>2 DEF IInv, TypeOK, GroupLingers, svcOnly, NoneAppears
  <1>4. Fresh' /\ OneGroup' /\ LeaseNames'
    BY <1>2, <1>3, GroupFrame DEF GroupLingers, svcOnly
  <1>5. ServeHolds' /\ Generations'
    BY <1>2 DEF IInv, ServeHolds, Generations, Holding, GroupLingers, svcOnly
  <1>6. Custodian'
    BY <1>1 DEF IInv, Custodian, Holding, Alive, GroupLingers, svcOnly
  <1>7. ReconcilesAlone'
    BY <1>1, <1>2, ServeAlone DEF GroupLingers, svcOnly, Holding
  <1>8. QED
    BY <1>3, <1>4, <1>5, <1>6, <1>7 DEF IInv

LEMMA SignalledKeeps ==
  ASSUME TypeOK, NEW p, NEW sig \in {"term", "kill"}, group' = Signalled(p, sig)
  PROVE  /\ group' \in [Pgids -> Group] /\ NoneAppears
         /\ \A q \in Pgids : group'[q].tok = group[q].tok /\ group'[q].child = group[q].child
  <1>1. group \in [Pgids -> Group]
    BY DEF TypeOK
  <1>2. group' \in [Pgids -> Group]
    BY <1>1 DEF Signalled, Group
  <1>3. ASSUME NEW q \in Pgids
        PROVE  group'[q].tok = group[q].tok /\ group'[q].child = group[q].child
    BY <1>1 DEF Signalled, Group
  <1>4. QED
    BY <1>2, <1>3 DEF NoneAppears

LEMMA TerminationKeeps == IInv /\ (Terminate \/ TermTimeout) => IInv'
  <1> SUFFICES ASSUME IInv, Terminate \/ TermTimeout PROVE IInv'
    OBVIOUS
  <1>1. /\ svc.pc \in {"run", "term"} /\ svc.pc \in Holding /\ svc.tok \in Tokens
        /\ UNCHANGED <<lease, disowned, ctl, blocked, config, spawned>>
    BY DEF IInv, Terminate, TermTimeout, ServeHolds, Holding, svcOnly
  <1>2. /\ svc' \in Svc /\ svc'.pc \in {"term", "killed"} /\ svc'.tok = svc.tok
        /\ svc'.pgid = svc.pgid /\ svc'.leasePgid = svc.leasePgid
        /\ svc'.generation = svc.generation
    BY DEF IInv, TypeOK, Terminate, TermTimeout, Svc
  <1>3. /\ group' \in [Pgids -> Group] /\ NoneAppears
        /\ \A q \in Pgids : group'[q].tok = group[q].tok
    BY SignalledKeeps DEF IInv, Terminate, TermTimeout
  <1>4. TypeOK'
    BY <1>1, <1>2, <1>3 DEF IInv, TypeOK
  <1>5. Fresh' /\ OneGroup' /\ LeaseNames'
    BY <1>1, <1>2, <1>3, <1>4, GroupFrame
  <1>6. ServeHolds' /\ Generations'
    BY <1>1, <1>2, <1>3 DEF IInv, ServeHolds, Generations, Holding, Alive
  <1>7. Custodian'
    BY <1>1, <1>2, <1>3 DEF IInv, Custodian, Holding, Alive
  <1>8. ReconcilesAlone'
    BY <1>1, <1>2, ServeAlone DEF Holding
  <1>9. QED
    BY <1>4, <1>5, <1>6, <1>7, <1>8 DEF IInv

(* The lease that the record step writes names the one backend that nobody *)
(* has given up.                                                           *)
LEMMA NewLeaseTyped ==
  ASSUME IInv, svc.pc = "record"
  PROVE  /\ NewLease \in Lease /\ NewLease.tok = svc.tok /\ NewLease.pgid = svc.pgid
         /\ svc.tok \in Tokens /\ svc.tok <= spawned
         /\ \A p \in Pgids : group[p].tok = svc.tok => p = svc.pgid
  <1>1. svc.tok \in Tokens /\ svc.tok <= spawned /\ svc.pgid \in Pgids
    BY DEF IInv, ServeHolds
  <1>2. svc.generation + 1 \in 1 .. MaxSpawns
    BY Numbers DEF IInv, TypeOK, Svc, Generations
  <1>3. QED
    BY <1>1, <1>2 DEF IInv, TypeOK, ServeHolds, NewLease, Lease

LEMMA RecordLeaseKeeps == IInv /\ RecordLease => IInv'
  <1> SUFFICES ASSUME IInv, RecordLease PROVE IInv'
    OBVIOUS
  <1>1. /\ svc.pc = "record" /\ lease' = NewLease /\ NewLease \in Lease
        /\ NewLease.tok = svc.tok /\ NewLease.pgid = svc.pgid /\ svc.tok \in Tokens
        /\ svc.tok <= spawned /\ \A p \in Pgids : group[p].tok = svc.tok => p = svc.pgid
        /\ UNCHANGED <<group, disowned, ctl, blocked, config, spawned>>
    BY NewLeaseTyped DEF RecordLease, svcOnly
  <1>2. /\ svc' \in Svc /\ svc'.pc = "run" /\ svc'.tok = svc.tok /\ svc'.pgid = svc.pgid
        /\ svc'.leasePgid = svc.pgid /\ svc'.generation = svc.generation + 1
    <2>1. svc \in Svc /\ svc.pgid \in Pgids
      BY <1>1 DEF IInv, TypeOK, ServeHolds
    <2>2. svc.generation + 1 \in 0 .. MaxSpawns
      BY <1>1, <2>1, Numbers DEF IInv, TypeOK, Svc, Generations
    <2>3. QED
      BY <2>1, <2>2 DEF RecordLease, Svc
  <1>3. TypeOK'
    BY <1>1, <1>2 DEF IInv, TypeOK
  <1>4. Fresh' /\ OneGroup' /\ LeaseNames'
    BY <1>1, <1>2 DEF IInv, Fresh, OneGroup, LeaseNames
  <1>5. ServeHolds' /\ Generations'
    <2>1. lease' # None /\ lease'.tok = svc'.tok
      BY <1>1, <1>2, NoneAssumption
    <2>2. svc'.tok \in Tokens /\ svc'.tok <= spawned' /\ svc'.pgid \in Pgids
      BY <1>1, <1>2 DEF IInv, ServeHolds
    <2>3. svc.generation \in Nat /\ spawned \in Nat
      BY DEF IInv, TypeOK, Svc
    <2>4. QED
      BY <1>1, <1>2, <2>1, <2>2, <2>3 DEF IInv, ServeHolds, Generations, Holding
  <1>6. Custodian'
    BY <1>1, <1>2 DEF IInv, Custodian, Holding, Alive
  <1>7. ReconcilesAlone'
    BY <1>1, <1>2, ServeAlone
  <1>8. QED
    BY <1>3, <1>4, <1>5, <1>6, <1>7 DEF IInv

LEMMA RecordFailsKeeps ==
  ASSUME IInv, NEW installed \in BOOLEAN, RecordFails(installed)
  PROVE  IInv'
  <1>1. /\ svc.pc = "record" /\ svc.tok \in Tokens /\ svc.tok <= spawned
        /\ NewLease \in Lease /\ NewLease.tok = svc.tok /\ NewLease.pgid = svc.pgid
        /\ \A p \in Pgids : group[p].tok = svc.tok => p = svc.pgid
        /\ disowned' = disowned \cup {svc.tok}
        /\ UNCHANGED <<ctl, blocked, config, spawned>>
    BY NewLeaseTyped DEF RecordFails, svcOnly
  <1>2. /\ svc' \in Svc /\ svc'.pc = "reap" /\ svc'.tok = svc.tok /\ svc'.pgid = svc.pgid
        /\ svc'.generation = svc.generation
    BY DEF IInv, TypeOK, RecordFails, Svc
  <1>3. /\ group' \in [Pgids -> Group]
        /\ \A q \in Pgids : group'[q].tok = group[q].tok
    BY SignalledKeeps DEF IInv, RecordFails
  <1>4. lease' = lease \/ lease' = NewLease
    BY DEF RecordFails
  <1>5. TypeOK'
    BY <1>1, <1>2, <1>3, <1>4 DEF IInv, TypeOK
  <1>6. Fresh' /\ OneGroup' /\ LeaseNames'
    <2>1. Fresh'
      BY <1>1, <1>2, <1>3, <1>4 DEF IInv, Fresh
    <2>2. OneGroup'
      BY <1>3 DEF IInv, OneGroup
    <2>3. LeaseNames'
      BY <1>1, <1>3, <1>4 DEF IInv, LeaseNames
    <2>4. QED
      BY <2>1, <2>2, <2>3
  <1>7. ServeHolds' /\ Generations'
    BY <1>1, <1>2, <1>3 DEF IInv, ServeHolds, Generations, Holding
  <1>8. Custodian'
    BY <1>1, <1>3 DEF IInv, Custodian, Holding, Alive
  <1>9. ReconcilesAlone'
    BY <1>1, <1>2, ServeAlone
  <1>10. QED
    BY <1>5, <1>6, <1>7, <1>8, <1>9 DEF IInv

LEMMA ReleaseGenerationKeeps ==
  ASSUME IInv, NEW removed \in BOOLEAN, NEW synced \in BOOLEAN,
         ReleaseGeneration(removed, synced)
  PROVE  IInv'
  <1>1. /\ svc.pc \in {"exitRelease", "stopRelease"} /\ svc.tok \in Tokens
        /\ ~Alive(svc.tok) /\ lease.tok = svc.tok
        /\ UNCHANGED <<group, ctl, blocked, config, spawned, disowned>>
    BY DEF IInv, ServeHolds, Holding, ReleaseGeneration, svcOnly
  <1>2. /\ svc' \in Svc /\ svc'.tok = NoToken /\ svc'.pc \in {"backoff", "done"}
        /\ svc'.generation = svc.generation
    <2>1. PICK failed \in BOOLEAN : failed = (~svc.clean \/ ~synced)
      OBVIOUS
    <2>2. PICK active \in BOOLEAN : active = ~synced
      OBVIOUS
    <2>3. PICK p \in Pgids \cup {None} :
            p = IF synced THEN None ELSE Finished(failed).leasePgid
      BY SvcTyped DEF IInv, Svc
    <2>4. PICK pc \in {"backoff", "done"} :
            svc' = [Finished(failed) EXCEPT !.pc = pc, !.leaseActive = active, !.leasePgid = p]
      BY <2>1, <2>2, <2>3, SvcTyped DEF IInv, ReleaseGeneration
    <2>5. QED
      BY <2>4, SvcTyped DEF IInv, Svc
  <1>3. lease' = lease \/ lease' = None
    BY DEF ReleaseGeneration
  <1>4. TypeOK' /\ NoneAppears
    BY <1>1, <1>2, <1>3 DEF IInv, TypeOK, NoneAppears
  <1>5. Fresh' /\ OneGroup' /\ LeaseNames'
    BY <1>1, <1>2, <1>3, <1>4, GroupFrame
  <1>6. ServeHolds' /\ Generations'
    BY <1>1, <1>2 DEF IInv, ServeHolds, Generations, Holding
  <1>7. Custodian'
    BY <1>1 DEF IInv, Custodian, Holding, Alive
  <1>8. ReconcilesAlone'
    BY <1>1, <1>2, ServeAlone
  <1>9. QED
    BY <1>4, <1>5, <1>6, <1>7, <1>8 DEF IInv

(* When Serve spawns, every backend that still runs has been given up.     *)
LEMMA SpawnFinds ==
  ASSUME IInv, NEW p \in Pgids, Spawn(p)
  PROVE  /\ spawned + 1 \in Tokens /\ ~Alive(spawned + 1) /\ spawned + 1 \notin disowned
         /\ \A t \in Tokens : Alive(t) => t \in disowned
         /\ group' \in [Pgids -> Group] /\ group'[p].tok = spawned + 1
         /\ \A q \in Pgids : q # p => group'[q] = group[q]
         /\ group[p].tok = NoToken
  <1>1. spawned \in Nat /\ spawned + 1 \in Tokens
    BY Numbers DEF IInv, TypeOK, Spawn, Tokens
  <1>2. ~Alive(spawned + 1) /\ spawned + 1 \notin disowned
    <2>1. \A q \in Pgids : group[q].tok <= spawned /\ group[q].tok # spawned + 1
      <3> TAKE q \in Pgids
      <3>1. group[q].tok \in Int
        BY Numbers DEF IInv, TypeOK, Group, Tokens, Foreign, NoToken
      <3>2. QED
        BY <3>1, <1>1 DEF IInv, Fresh
    <2>2. QED
      BY <1>1, <2>1 DEF IInv, Fresh, TypeOK, Tokens, Alive
  <1>3. \A t \in Tokens : Alive(t) => t \in disowned
    BY DEF IInv, Custodian, Spawn, Holding
  <1>4. group' \in [Pgids -> Group]
    <2>1. [Free EXCEPT !.tok = spawned + 1, !.leader = TRUE] \in Group
      BY <1>1 DEF Free, Group
    <2>2. QED
      BY <2>1 DEF IInv, TypeOK, Spawn
  <1>5. QED
    BY <1>1, <1>2, <1>3, <1>4, Numbers DEF IInv, TypeOK, Spawn, Free

LEMMA SpawnKeeps ==
  ASSUME IInv, NEW p \in Pgids, Spawn(p)
  PROVE  IInv'
  <1>1. /\ spawned + 1 \in Tokens /\ ~Alive(spawned + 1) /\ spawned + 1 \notin disowned
        /\ \A t \in Tokens : Alive(t) => t \in disowned
        /\ group' \in [Pgids -> Group] /\ group'[p].tok = spawned + 1
        /\ \A q \in Pgids : q # p => group'[q] = group[q]
        /\ group[p].tok = NoToken
    BY SpawnFinds
  <1>2. /\ spawned' = spawned + 1 /\ spawned \in Nat /\ spawned' \in 0 .. MaxSpawns
        /\ svc.pc = "spawn" /\ UNCHANGED <<lease, ctl, blocked, config, disowned>>
    BY <1>1, Numbers DEF IInv, TypeOK, Spawn, Tokens
  <1>3. /\ svc' \in Svc /\ svc'.pc = "record" /\ svc'.tok = spawned + 1 /\ svc'.pgid = p
        /\ svc'.generation = svc.generation
    BY <1>1 DEF IInv, TypeOK, Spawn, Svc
  <1>4. TypeOK'
    BY <1>1, <1>2, <1>3 DEF IInv, TypeOK
  <1>5. \A q \in Pgids : group'[q].tok = spawned + 1 => q = p
    BY <1>1 DEF Alive
  <1>6. Fresh'
    <2>1. \A q \in Pgids : group'[q].tok <= spawned'
      <3> TAKE q \in Pgids
      <3>1. group[q].tok \in Int /\ group[q].tok <= spawned
        BY Numbers DEF IInv, Fresh, TypeOK, Group, Tokens, Foreign, NoToken
      <3>2. QED
        BY <3>1, <1>1, <1>2
    <2>2. lease # None => lease.tok <= spawned'
      BY <1>2, Numbers DEF IInv, Fresh, TypeOK, Lease, Tokens
    <2>3. \A t \in disowned : t <= spawned'
      BY <1>2, Numbers DEF IInv, Fresh, TypeOK
    <2>4. QED
      BY <1>2, <1>3, <2>1, <2>2, <2>3 DEF Fresh
  <1>7. OneGroup'
    BY <1>1, <1>5 DEF IInv, OneGroup
  <1>8. LeaseNames'
    <2>1. lease # None => lease.tok # spawned + 1
      BY <1>2, Numbers DEF IInv, Fresh, TypeOK, Lease
    <2>2. QED
      BY <1>1, <1>2, <2>1 DEF IInv, LeaseNames
  <1>9. ServeHolds' /\ Generations'
    <2>1. svc.generation \in Nat /\ svc.generation <= spawned
      BY DEF IInv, Generations, TypeOK, Svc
    <2>2. lease # None => lease.tok # spawned + 1
      BY <1>2, Numbers DEF IInv, Fresh, TypeOK, Lease, Tokens
    <2>3. QED
      BY <1>1, <1>2, <1>3, <1>5, <2>1, <2>2 DEF ServeHolds, Generations, Holding
  <1>10. Custodian'
    <2> SUFFICES ASSUME NEW t \in Tokens, NEW q \in Pgids, group'[q].tok = t,
                        t \notin disowned'
                 PROVE  svc'.pc = "record" /\ svc'.tok = t
      BY DEF Custodian, Alive
    <2>1. CASE q = p
      BY <2>1, <1>1, <1>3
    <2>2. CASE q # p
      BY <2>2, <1>1, <1>2 DEF Alive
    <2>3. QED
      BY <2>1, <2>2
  <1>11. ReconcilesAlone'
    BY <1>2, <1>3, ServeAlone
  <1>12. QED
    BY <1>4, <1>6, <1>7, <1>8, <1>9, <1>10, <1>11 DEF IInv

LEMMA ServeKeeps == IInv /\ Serve => IInv'
  BY ServeMoves, SpawnKeeps, RecordLeaseKeeps, RecordFailsKeeps, TerminationKeeps,
     GroupEmptyKeeps, GroupLingersKeeps, ReleaseGenerationKeeps
  DEF Serve

---------------------------------------------------------------------------
(* Where a step of the goroutine in charge leaves it.                      *)
LEMMA CtlMoves ==
  ASSUME TypeOK
  PROVE  /\ \A pc \in Reconciling \cup {"down", "start", "idle", "await"} :
              Goto(pc) => ctl' \in Ctl /\ ctl'.pc = pc /\ ctl'.lease = ctl.lease
         /\ Block => ctl' \in Ctl /\ ctl'.pc = "idle" /\ blocked' = TRUE
         /\ Proceed => ctl' \in Ctl /\ ctl'.pc = "start" /\ blocked' = FALSE
         /\ lease # None /\ ctl' = [pc |-> "verify", lease |-> lease]
              => ctl' \in Ctl /\ ctl'.pc = "verify" /\ ctl'.lease = lease
         /\ ctl' = [pc |-> "down", lease |-> None] => ctl' \in Ctl /\ ctl'.pc = "down"
  <1>1. ctl \in Ctl /\ lease \in Lease \cup {None}
    BY DEF TypeOK
  <1>2. ASSUME NEW pc \in Reconciling \cup {"down", "start", "idle", "await"}, Goto(pc)
        PROVE  ctl' \in Ctl /\ ctl'.pc = pc /\ ctl'.lease = ctl.lease
    BY <1>1, <1>2 DEF Goto, Ctl, Reconciling
  <1>3. Block => ctl' \in Ctl /\ ctl'.pc = "idle" /\ blocked' = TRUE
    BY DEF Block, Ctl
  <1>4. Proceed => ctl' \in Ctl /\ ctl'.pc = "start" /\ blocked' = FALSE
    BY DEF Proceed, Ctl
  <1>5. ctl' = [pc |-> "verify", lease |-> lease]
          => ctl' \in Ctl /\ ctl'.pc = "verify" /\ ctl'.lease = lease
    BY <1>1 DEF Ctl
  <1>6. ctl' = [pc |-> "down", lease |-> None] => ctl' \in Ctl /\ ctl'.pc = "down"
    BY DEF Ctl
  <1>7. QED
    BY <1>2, <1>3, <1>4, <1>5, <1>6

(* The reconciler: what any step of it does to the rest.                   *)
Reconciled ==
  /\ ctl' \in Ctl /\ blocked' \in BOOLEAN /\ group' \in [Pgids -> Group]
  /\ \A q \in Pgids : group'[q].tok = group[q].tok
  /\ \/ lease' = lease /\ (ctl'.pc = "start" => lease = None)
     \/ lease' = None /\ lease # None /\ ~Alive(lease.tok)
        /\ ctl'.pc \notin Reconciling
  /\ ctl'.pc \in Reconciling \ {"list"} => lease # None /\ ctl'.lease = lease
  /\ ctl'.pc = "release" => ~Alive(lease.tok)
  /\ ctl'.pc \in {"waitTerm", "kill"} => Warned'

LEMMA DeadIsGone ==
  ASSUME IInv, lease # None, group[lease.pgid] = Free
  PROVE  ~Alive(lease.tok)
  BY Numbers DEF IInv, TypeOK, Lease, LeaseNames, Alive

LEMMA ReconcileDoes == IInv /\ Reconcile => Reconciled /\ UNCHANGED ctlOnly /\ svc.pc = "none"
  <1> SUFFICES ASSUME IInv, Reconcile
               PROVE  Reconciled /\ UNCHANGED ctlOnly /\ svc.pc = "none"
    OBVIOUS
  <1>1. /\ TypeOK /\ ctl \in Ctl /\ blocked \in BOOLEAN /\ group \in [Pgids -> Group]
        /\ lease # None => lease \in Lease
    BY DEF IInv, TypeOK
  <1>2. CASE List
    <2>1. svc.pc = "none"
      BY <1>2 DEF List, IInv, ReconcilesAlone, Reconciling
    <2>2. Reconciled
      BY <1>1, CtlMoves, <1>2 DEF List, Reconciled, Reconciling
    <2>3. QED
      BY <1>2, <2>1, <2>2 DEF List
  <1>3. CASE ReleaseIfCurrent
    <2>1. svc.pc = "none" /\ lease # None /\ ctl.lease = lease /\ ~Alive(lease.tok)
      BY <1>3 DEF ReleaseIfCurrent, IInv, ReconcilesAlone, Reconciling
    <2>2. Reconciled
      BY <1>1, CtlMoves, <1>3, <2>1 DEF ReleaseIfCurrent, Reconciled, Reconciling
    <2>3. QED
      BY <1>3, <2>1, <2>2 DEF ReleaseIfCurrent
  <1>4. ASSUME ctl.pc \in {"verify", "term", "waitTerm", "kill", "waitKill"},
               NEW v \in Verdicts(ctl.lease),
               FirstVerify(v) \/ SignalTerm(v) \/ WaitTerm(v) \/ SignalKill(v) \/ WaitKill(v)
        PROVE  Reconciled /\ UNCHANGED ctlOnly /\ svc.pc = "none"
    <2>1. svc.pc = "none" /\ lease # None /\ ctl.lease = lease
      BY <1>4 DEF IInv, ReconcilesAlone, Reconciling
    <2>2. v = "dead" => ~Alive(lease.tok)
      BY <2>1, DeadIsGone DEF Verdicts, Verdict
    <2>3. CASE FirstVerify(v)
      BY <1>1, CtlMoves, <2>1, <2>2, <2>3 DEF FirstVerify, Reconciled, Reconciling
    <2>4. CASE SignalTerm(v)
      <3>1. \/ v = "owned" /\ group' = Signalled(lease.pgid, "term") /\ Goto("waitTerm")
               /\ UNCHANGED blocked
            \/ Block /\ UNCHANGED group
        BY <2>1, <2>4 DEF SignalTerm
      <3>2. group' \in [Pgids -> Group] /\ \A q \in Pgids : group'[q].tok = group[q].tok
        BY <1>1, <3>1, SignalledKeeps DEF IInv
      <3>3. lease' = lease /\ UNCHANGED ctlOnly
        BY <2>4 DEF SignalTerm
      <3>4. ctl'.pc = "waitTerm" => Warned'
        <4>1. CASE v = "owned" /\ group' = Signalled(lease.pgid, "term")
          <5>1. group[lease.pgid] # Free /\ lease.pgid \in Pgids
            BY <1>1, <2>1, <4>1 DEF Verdicts, Verdict, Lease
          <5>2. group'[lease.pgid].sig # "none"
            BY <1>1, <4>1, <5>1 DEF Signalled
          <5>3. \A q \in Pgids : group[q].tok = lease.tok => q = lease.pgid
            BY <2>1 DEF IInv, LeaseNames
          <5>4. QED
            BY <3>2, <3>3, <5>2, <5>3 DEF Warned
        <4>2. CASE Block
          BY <4>2, CtlMoves, <1>1
        <4>3. QED
          BY <3>1, <4>1, <4>2
      <3>5. QED
        BY <1>1, CtlMoves, <2>1, <3>1, <3>2, <3>3, <3>4 DEF Reconciled, Reconciling
    <2>5. CASE WaitTerm(v)
      <3>1. Warned' /\ UNCHANGED <<group, lease>>
        BY <1>4, <2>5 DEF WaitTerm, IInv, ReconcilesAlone, Warned
      <3>2. QED
        BY <1>1, CtlMoves, <2>1, <2>2, <2>5, <3>1 DEF WaitTerm, Reconciled, Reconciling
    <2>6. CASE SignalKill(v)
      <3>1. \/ group' = Signalled(ctl.lease.pgid, "kill") /\ Goto("waitKill") /\ UNCHANGED blocked
            \/ Block /\ UNCHANGED group
        BY <2>6 DEF SignalKill
      <3>2. group' \in [Pgids -> Group] /\ \A q \in Pgids : group'[q].tok = group[q].tok
        BY <1>1, <3>1, SignalledKeeps DEF IInv
      <3>3. QED
        BY <1>1, CtlMoves, <2>1, <2>6, <3>1, <3>2
        DEF SignalKill, Reconciled, Reconciling
    <2>7. CASE WaitKill(v)
      BY <1>1, CtlMoves, <2>1, <2>2, <2>7 DEF WaitKill, Reconciled, Reconciling
    <2>8. QED
      BY <1>4, <2>3, <2>4, <2>5, <2>6, <2>7
  <1>5. QED
    BY <1>2, <1>3, <1>4 DEF Reconcile

LEMMA ReconcileKeeps == IInv /\ Reconcile => IInv'
  <1> SUFFICES ASSUME IInv, Reconcile PROVE IInv'
    OBVIOUS
  <1>1. Reconciled /\ UNCHANGED <<svc, config, spawned, disowned>> /\ svc.pc = "none"
    BY ReconcileDoes DEF ctlOnly
  <1>2. TypeOK'
    BY <1>1 DEF Reconciled, IInv, TypeOK
  <1>3. NoneAppears /\ (lease' = lease \/ lease' = None)
    BY <1>1 DEF Reconciled, NoneAppears
  <1>4. Fresh' /\ OneGroup' /\ LeaseNames'
    BY <1>1, <1>2, <1>3, GroupFrame
  <1>5. ServeHolds' /\ Generations'
    BY <1>1 DEF Reconciled, IInv, ServeHolds, Generations, Holding
  <1>6. Custodian'
    BY <1>1 DEF Reconciled, IInv, Custodian, Holding, Alive
  <1>7. ReconcilesAlone'
    <2>1. \A t : Alive(t) = \E p \in Pgids : group'[p].tok = t
      BY <1>1 DEF Reconciled, Alive
    <2>2. QED
      BY <1>1, <2>1 DEF Reconciled, ReconcilesAlone, Reconciling, Alive
  <1>8. QED
    BY <1>2, <1>4, <1>5, <1>6, <1>7 DEF IInv

---------------------------------------------------------------------------
(* The registry and the daemon.                                            *)
LEMMA ControlKeeps == IInv /\ Control => IInv'
  <1> SUFFICES ASSUME IInv, Control PROVE IInv'
    OBVIOUS
  <1>1. /\ ctl \in Ctl /\ svc \in Svc /\ NoSvc \in Svc /\ NewSvc \in Svc /\ TypeOK
        /\ UNCHANGED <<group, lease, spawned>> /\ NoneAppears
    <2>1. NoSvc \in Svc
      BY Numbers DEF NoSvc, Svc
    <2>2. NewSvc \in Svc
      BY <2>1 DEF NewSvc, Svc
    <2>3. UNCHANGED <<group, lease, spawned>>
      BY DEF Control, StartServer, StartBlocked, StopServer, Removed, RemoveTimeout,
             DaemonStarts, DaemonDies, ctlOnly
    <2>4. QED
      BY <2>1, <2>2, <2>3 DEF IInv, TypeOK, NoneAppears
  <1> DEFINE Known == svc' \in Svc /\ ctl' \in Ctl /\ blocked' \in BOOLEAN /\ config' \in BOOLEAN
                      /\ svc'.tok \in {svc.tok, NoToken}
                      /\ disowned' \subseteq disowned \cup {svc.tok}
                      /\ disowned \subseteq disowned' /\ disowned' \subseteq Tokens
             Waits == \/ svc'.pc \in {"none", "backoff"} /\ svc'.generation = 0
                      \/ svc'.pc = svc.pc /\ svc'.pgid = svc.pgid /\ svc'.tok = svc.tok
                         /\ svc'.leasePgid = svc.leasePgid /\ svc'.generation = svc.generation
                         /\ disowned' = disowned
             Alone == ctl'.pc \in Reconciling \cup {"down", "start"} => svc'.pc = "none"
             Handed == \A t \in Tokens : Alive(t) /\ t \notin disowned' =>
                         \/ svc'.pc \in {"record"} \cup Holding /\ svc'.tok = t
                         \/ svc'.pc = "none" /\ ctl'.pc # "start" /\ lease # None
                            /\ lease.tok = t
  <1>2. Known /\ Waits /\ Alone /\ Handed /\ ctl'.pc \notin Reconciling \ {"list"}
    <2>1. \A pc \in {"list", "start", "idle", "await"} : Goto(pc) => ctl' \in Ctl /\ ctl'.pc = pc
      BY <1>1, CtlMoves DEF Reconciling
    <2>2. /\ blocked \in BOOLEAN /\ config \in BOOLEAN /\ disowned \subseteq Tokens
          /\ Custodian /\ ReconcilesAlone
      BY DEF IInv, TypeOK
    <2>3. /\ NoSvc.pc = "none" /\ NoSvc.tok = NoToken /\ NoSvc.generation = 0
          /\ NewSvc.pc = "backoff" /\ NewSvc.tok = NoToken /\ NewSvc.generation = 0
      BY DEF NoSvc, NewSvc
    <2>4. CASE StartServer
      <3>1. svc.pc = "none" /\ svc' = NewSvc /\ UNCHANGED <<blocked, config, disowned>>
        BY <2>2, <2>4 DEF StartServer, ReconcilesAlone
      <3>2. ctl' \in Ctl /\ ctl'.pc = "idle"
        BY <2>1, <2>4 DEF StartServer
      <3>3. Handed
        <4>1. ctl.pc = "start"
          BY <2>4 DEF StartServer
        <4>2. QED
          BY <3>1, <4>1, <2>2 DEF Custodian, Holding
      <3>4. QED
        BY <1>1, <2>2, <2>3, <3>1, <3>2, <3>3 DEF Reconciling
    <2>5. CASE StartBlocked
      <3>1. /\ ctl' \in Ctl /\ ctl'.pc = "list" /\ svc.pc = "none"
            /\ UNCHANGED <<svc, blocked, config, disowned>>
        BY <2>1, <2>5 DEF StartBlocked, ctlOnly
      <3>2. Handed
        BY <2>2, <3>1 DEF Custodian
      <3>3. QED
        BY <1>1, <2>2, <3>1, <3>2 DEF Reconciling
    <2>6. CASE StopServer
      <3>1. UNCHANGED <<blocked, config, disowned>> /\ svc.pc # "none"
        BY <2>6 DEF StopServer
      <3>2. CASE svc.pc \in {"backoff", "done"}
        <4>1. svc' = NoSvc /\ ctl' \in Ctl /\ ctl'.pc = "start"
          BY <2>1, <2>6, <3>2 DEF StopServer
        <4>2. Handed
          BY <2>2, <3>1, <3>2 DEF Custodian, Holding
        <4>3. QED
          BY <1>1, <2>2, <2>3, <3>1, <4>1, <4>2 DEF Reconciling
      <3>3. CASE svc.pc \notin {"backoff", "done"}
        <4>1. svc' = [svc EXCEPT !.cancelled = TRUE] /\ ctl' \in Ctl /\ ctl'.pc = "await"
          BY <2>1, <2>6, <3>3 DEF StopServer
        <4>2. /\ svc' \in Svc /\ svc'.pc = svc.pc /\ svc'.tok = svc.tok
              /\ svc'.pgid = svc.pgid /\ svc'.leasePgid = svc.leasePgid
              /\ svc'.generation = svc.generation
          BY <1>1, <4>1 DEF Svc
        <4>3. Handed
          BY <2>2, <3>1, <4>2 DEF Custodian
        <4>4. QED
          BY <1>1, <2>2, <3>1, <4>1, <4>2, <4>3 DEF Reconciling
      <3>4. QED
        BY <3>2, <3>3
    <2>7. CASE Removed
      <3>1. /\ svc' = NoSvc /\ ctl' \in Ctl /\ ctl'.pc = "start" /\ svc.pc = "done"
            /\ UNCHANGED <<blocked, config, disowned>>
        BY <2>1, <2>7 DEF Removed
      <3>2. Handed
        BY <2>2, <3>1 DEF Custodian, Holding
      <3>3. QED
        BY <1>1, <2>2, <2>3, <3>1, <3>2 DEF Reconciling
    <2>8. CASE RemoveTimeout
      <3>1. /\ ctl' \in Ctl /\ ctl'.pc = "idle" /\ UNCHANGED <<svc, blocked, config, disowned>>
        BY <2>1, <2>8 DEF RemoveTimeout, ctlOnly
      <3>2. Handed
        BY <2>2, <3>1 DEF Custodian
      <3>3. QED
        BY <1>1, <2>2, <3>1, <3>2 DEF Reconciling
    <2>9. CASE DaemonDies
      <3>1. /\ svc' = NoSvc /\ blocked' = FALSE /\ UNCHANGED config
            /\ ctl' \in Ctl /\ ctl'.pc = "down" /\ ctl.pc # "down"
        BY <1>1, <2>9, CtlMoves DEF DaemonDies
      <3>2. /\ disowned \subseteq disowned' /\ disowned' \subseteq Tokens
            /\ disowned' \subseteq disowned \cup {svc.tok}
            /\ svc.pc = "record" => svc.tok \in disowned'
        BY <2>2, <2>9 DEF DaemonDies, IInv, ServeHolds
      <3>3. Handed
        BY <2>2, <2>3, <3>1, <3>2 DEF IInv, Custodian, ServeHolds, Holding
      <3>4. QED
        BY <1>1, <2>2, <2>3, <3>1, <3>2, <3>3 DEF Reconciling
    <2>10. ASSUME NEW edited \in BOOLEAN, DaemonStarts(edited)
           PROVE  Known /\ Waits /\ Alone /\ Handed /\ ctl'.pc \notin Reconciling \ {"list"}
      <3>1. /\ ctl' \in Ctl /\ ctl'.pc = "list" /\ config' \in BOOLEAN
            /\ svc' = svc /\ svc.pc = "none" /\ UNCHANGED <<blocked, disowned>>
        BY <2>1, <2>2, <2>10 DEF DaemonStarts, ReconcilesAlone
      <3>2. Handed
        BY <2>2, <3>1 DEF Custodian
      <3>3. QED
        BY <1>1, <2>2, <3>1, <3>2 DEF Reconciling
    <2>11. QED
      BY <2>4, <2>5, <2>6, <2>7, <2>8, <2>9, <2>10 DEF Control
  <1>3. TypeOK'
    BY <1>1, <1>2 DEF IInv, TypeOK
  <1>4. Fresh' /\ OneGroup' /\ LeaseNames'
    BY <1>1, <1>2, <1>3, GroupFrame
  <1>5. ServeHolds' /\ Generations'
    BY <1>1, <1>2, Numbers DEF IInv, TypeOK, ServeHolds, Generations, Holding, Alive
  <1>6. Custodian'
    BY <1>1, <1>2 DEF Custodian, Alive
  <1>7. ReconcilesAlone'
    BY <1>2 DEF ReconcilesAlone, Reconciling
  <1>8. QED
    BY <1>3, <1>4, <1>5, <1>6, <1>7 DEF IInv

---------------------------------------------------------------------------
LEMMA Initially == Init => IInv
  <1> SUFFICES ASSUME Init PROVE IInv
    OBVIOUS
  <1>1. TypeOK
    <2>1. group \in [Pgids -> Group] /\ lease \in Lease \cup {None}
      BY Numbers DEF Init
    <2>2. svc \in Svc
      BY Numbers DEF Init, NoSvc, Svc
    <2>3. ctl \in Ctl
      BY DEF Init, Ctl
    <2>4. blocked \in BOOLEAN /\ config \in BOOLEAN /\ disowned \subseteq Tokens
      BY DEF Init
    <2>5. spawned \in 0 .. MaxSpawns
      BY Numbers DEF Init
    <2>6. QED
      BY <2>1, <2>2, <2>3, <2>4, <2>5 DEF TypeOK
  <1>2. \A p \in Pgids : group[p].tok = NoToken
    BY Numbers DEF Init
  <1>3. svc.pc = "none" /\ svc.tok = NoToken /\ svc.generation = 0
    BY DEF Init, NoSvc
  <1>4. Fresh /\ Generations
    BY <1>2, <1>3 DEF Init, Fresh, Generations, NoToken
  <1>5. OneGroup /\ LeaseNames /\ ServeHolds /\ Custodian /\ ReconcilesAlone
    BY <1>2, <1>3, Numbers
    DEF Init, OneGroup, LeaseNames, ServeHolds, Custodian, ReconcilesAlone, Holding,
        Reconciling, Alive
  <1>6. QED
    BY <1>1, <1>4, <1>5 DEF IInv

LEMMA Inductive == IInv /\ [Next]_vars => IInv'
  <1> SUFFICES ASSUME IInv, [Next]_vars PROVE IInv'
    OBVIOUS
  <1>1. CASE Next
    BY <1>1, ServeKeeps, ReconcileKeeps, ControlKeeps, SystemKeeps DEF Next
  <1>2. CASE UNCHANGED vars
    BY <1>2
    DEF vars, IInv, TypeOK, Fresh, Generations, OneGroup, LeaseNames, ServeHolds, Custodian,
        ReconcilesAlone, Warned, Alive
  <1>3. QED
    BY <1>1, <1>2

LEMMA Invariant == Spec => []IInv
  BY Initially, Inductive, PTL DEF Spec

(* Every variable has its type: no step, of the system or of the daemon,   *)
(* leaves the records of process.go and store.go.                          *)
THEOREM OwnershipTypes == Spec => []TypeOK
  <1>1. IInv => TypeOK
    BY DEF IInv
  <1>2. QED
    BY <1>1, Invariant, PTL

---------------------------------------------------------------------------
(* The reconciler (reconcile.go:144, 214) only signals a group whose every *)
(* member it has just verified against the lease, and kills it only after  *)
(* it had its SIGTERM.                                                     *)
THEOREM ReclaimSpares == Spec => ReclaimSparesOthers
  <1> DEFINE Spares == \A p \in Pgids :
                         (ctl.pc \in Reconciling /\ ctl' # ctl /\ group'[p] # group[p])
                           => /\ group[p].tok = lease.tok /\ group[p].child # "scrubbed"
                              /\ group'[p].sig = "kill" => group[p].sig = "term"
  <1>1. IInv /\ [Next]_vars => [Spares]_vars
    <2> SUFFICES ASSUME IInv, Next, NEW p \in Pgids,
                        ctl.pc \in Reconciling, ctl' # ctl, group'[p] # group[p]
                 PROVE  /\ group[p].tok = lease.tok /\ group[p].child # "scrubbed"
                        /\ group'[p].sig = "kill" => group[p].sig = "term"
      BY DEF vars
    <2>1. svc.pc = "none"
      BY DEF IInv, ReconcilesAlone
    <2>2. ~Serve
      BY <2>1 DEF Serve, BeforeStart, RestartLimit, SpawnFails, Spawn, RecordLease, RecordFails,
                  Reaped, Exited, Terminate, TermTimeout, Terminated, GroupEmpty,
                  GroupLingers, ReleaseGeneration
    <2>3. ~Control
      BY DEF Control, StartServer, StartBlocked, StopServer, Removed, RemoveTimeout,
             DaemonStarts, DaemonDies
    <2>4. ~System
      BY DEF System, Fork, LeaderDies, ChildDies, ForeignTakes, ForeignGoes, osOnly
    <2>5. PICK v \in Verdicts(ctl.lease) : SignalTerm(v) \/ SignalKill(v)
      BY <2>2, <2>3, <2>4
      DEF Next, Reconcile, List, ReleaseIfCurrent, FirstVerify, WaitTerm, WaitKill
    <2>6. /\ ctl.lease = lease /\ lease # None /\ v = "owned"
          /\ \/ group' = Signalled(lease.pgid, "term")
             \/ group' = Signalled(lease.pgid, "kill") /\ Warned
      BY <2>5 DEF SignalTerm, SignalKill, IInv, ReconcilesAlone, Reconciling
    <2>7. group[lease.pgid].tok = lease.tok /\ group[lease.pgid].child # "scrubbed"
      BY <2>6 DEF Verdicts, Verdict
    <2>8. p = lease.pgid /\ group[p].sig # "kill" /\ group[p] \in Group
      BY <2>6 DEF Signalled, IInv, TypeOK
    <2>9. CASE group' = Signalled(lease.pgid, "term")
      <3>1. group'[p].sig = "term"
        BY <2>8, <2>9 DEF Signalled, IInv, TypeOK
      <3>2. QED
        BY <2>7, <2>8, <3>1
    <2>10. CASE Warned
      <3>1. group[p].sig = "term"
        BY <2>7, <2>8, <2>10 DEF Warned, Group
      <3>2. QED
        BY <2>7, <2>8, <3>1
    <2>11. QED
      BY <2>6, <2>9, <2>10
  <1>2. QED
    BY <1>1, Invariant, PTL DEF Spec, ReclaimSparesOthers

---------------------------------------------------------------------------
(* The leases implement Custody.  First the steps it does not see.         *)
Live    == {t \in Tokens : Alive(t)}
Booked  == IF lease = None THEN NoToken ELSE lease.tok
Pending == IF svc.pc = "record" THEN {svc.tok} ELSE {}
Unseen  == UNCHANGED <<Live, Booked, Pending, disowned>>

LEMMA SameTokens ==
  ASSUME \A p \in Pgids : group'[p].tok = group[p].tok
  PROVE  UNCHANGED Live
  BY DEF Live, Alive

LEMMA ServeImplements ==
  IInv /\ IInv' /\ Serve => Unseen \/ C!CustodyNext
  <1> SUFFICES ASSUME IInv, IInv', Serve PROVE Unseen \/ C!CustodyNext
    OBVIOUS
  <1>1. CASE BeforeStart \/ RestartLimit \/ SpawnFails \/ Reaped
             \/ (\E clean \in BOOLEAN : Exited(clean)) \/ Terminated
             \/ GroupEmpty
    <2>1. UNCHANGED <<group, lease, disowned>> /\ svc.pc # "record"
      BY <1>1 DEF BeforeStart, RestartLimit, SpawnFails, Reaped, Exited, Terminated,
                  GroupEmpty
    <2>2. svc'.pc # "record"
      BY <1>1, SvcTyped DEF IInv, TypeOK, Svc, BeforeStart, RestartLimit, SpawnFails, Reaped,
                  Exited, Terminated, GroupEmpty
    <2>3. QED
      BY <2>1, <2>2 DEF Unseen, Live, Alive, Booked, Pending
  <1>2. CASE Terminate \/ TermTimeout
    <2>1. UNCHANGED Live
      BY <1>2, SignalledKeeps, SameTokens DEF IInv, Terminate, TermTimeout
    <2>2. svc.pc # "record" /\ svc'.pc # "record" /\ UNCHANGED <<lease, disowned>>
      BY <1>2 DEF IInv, TypeOK, Svc, Terminate, TermTimeout
    <2>3. QED
      BY <2>1, <2>2 DEF Unseen, Booked, Pending
  <1>3. ASSUME NEW p \in Pgids, Spawn(p) PROVE C!CustodyNext
    <2> DEFINE b == spawned + 1
    <2>1. /\ spawned \in Nat /\ b \in Tokens /\ svc.pc = "spawn"
          /\ group \in [Pgids -> Group] /\ group[p] = Free
          /\ group' = [group EXCEPT ![p] = [Free EXCEPT !.tok = b, !.leader = TRUE]]
          /\ svc'.pc = "record" /\ svc'.tok = b /\ UNCHANGED <<lease, disowned>>
      BY <1>3, Numbers DEF IInv, TypeOK, Svc, Spawn, Tokens
    <2>2. /\ group'[p].tok = b
          /\ \A q \in Pgids : q # p => group'[q].tok = group[q].tok
      BY <2>1 DEF Free
    <2>3. b \notin Live \cup disowned
      <3>1. \A q \in Pgids : group[q].tok # b
        BY <2>1, Numbers DEF IInv, Fresh, TypeOK, Group, Tokens, Foreign, NoToken
      <3>2. b \notin disowned
        BY <2>1, Numbers DEF IInv, Fresh, TypeOK, Tokens
      <3>3. QED
        BY <3>1, <3>2 DEF Live, Alive
    <2>4. Live \subseteq disowned
      BY <2>1 DEF IInv, Custodian, Holding, Live
    <2>5. Live' = Live \cup {b}
      BY <2>1, <2>2, Numbers DEF Live, Alive
    <2>6. Pending = {} /\ Pending' = {b} /\ Booked' = Booked
      BY <2>1 DEF Pending, Booked
    <2>7. C!Begin(b)
      BY <2>1, <2>3, <2>4, <2>5, <2>6 DEF C!Begin, Live, Pending, Booked
    <2>8. QED
      BY <2>1, <2>7 DEF C!CustodyNext
  <1>4. CASE RecordLease \/ \E installed \in BOOLEAN : RecordFails(installed)
    <2>1. svc.pc = "record" /\ svc.tok \in Tokens /\ Pending = {svc.tok}
      BY <1>4 DEF RecordLease, RecordFails, IInv, ServeHolds, Pending
    <2>2. svc'.pc # "record" /\ Pending' = {}
      BY <1>4 DEF RecordLease, RecordFails, IInv, TypeOK, Svc, Pending
    <2>3. UNCHANGED Live
      <3>1. CASE RecordLease
        BY <3>1 DEF RecordLease, Live, Alive
      <3>2. ASSUME NEW installed \in BOOLEAN, RecordFails(installed) PROVE UNCHANGED Live
        BY <3>2, SignalledKeeps, SameTokens DEF IInv, RecordFails
      <3>3. QED
        BY <1>4, <3>1, <3>2
    <2>4. disowned' \in {disowned, disowned \cup {svc.tok}}
      BY <1>4 DEF RecordLease, RecordFails
    <2>5. CASE lease' = NewLease
      <3>1. Booked' = svc.tok
        BY <2>1, <2>5, NoneAssumption, NewLeaseTyped DEF Booked
      <3>2. Booked \in Live => Booked \in disowned
        BY <2>1, Numbers DEF IInv, Custodian, ServeHolds, Booked, Live
      <3>3. C!Book(svc.tok)
        BY <2>1, <2>2, <2>3, <2>4, <3>1, <3>2 DEF C!Book, Live, Booked, Pending
      <3>4. QED
        BY <2>1, <3>3 DEF C!CustodyNext
    <2>6. CASE lease' = lease /\ disowned' = disowned \cup {svc.tok}
      <3>1. C!GiveUp(svc.tok)
        BY <2>1, <2>2, <2>3, <2>6 DEF C!GiveUp, Live, Booked, Pending
      <3>2. QED
        BY <2>1, <3>1 DEF C!CustodyNext
    <2>7. QED
      BY <1>4, <2>5, <2>6 DEF RecordLease, RecordFails
  <1>5. CASE GroupLingers
    <2>1. /\ svc.pc \in Holding /\ svc.pc # "record" /\ UNCHANGED <<group, lease>>
          /\ disowned' = disowned \cup {svc.tok}
      BY <1>5 DEF GroupLingers, Holding
    <2>2. svc'.pc # "record"
      BY <1>5, SvcTyped DEF GroupLingers, IInv
    <2>3. svc.tok \in Tokens /\ Booked = svc.tok
      BY <2>1 DEF IInv, ServeHolds, Booked
    <2>4. C!GiveUp(svc.tok)
      BY <2>1, <2>2, <2>3 DEF C!GiveUp, Live, Alive, Booked, Pending
    <2>5. QED
      BY <2>3, <2>4 DEF C!CustodyNext
  <1>6. ASSUME NEW removed \in BOOLEAN, NEW synced \in BOOLEAN,
               ReleaseGeneration(removed, synced)
        PROVE  Unseen \/ C!CustodyNext
    <2>1. /\ svc.pc \in {"exitRelease", "stopRelease"} /\ UNCHANGED <<group, disowned>>
          /\ lease # None /\ lease.tok = svc.tok /\ ~Alive(svc.tok)
          /\ lease' \in {lease, None}
      BY <1>6 DEF ReleaseGeneration, IInv, ServeHolds, Holding
    <2>2. svc'.pc # "record"
      <3>1. /\ svc \in Svc
            /\ Finished(~svc.clean \/ ~synced) \in Svc
            /\ Finished(~svc.clean \/ ~synced).pc \in {"backoff", "done"}
        BY SvcTyped DEF IInv, TypeOK
      <3>2. QED
        BY <1>6, <3>1 DEF ReleaseGeneration, Svc
    <2>3. Booked \notin Live /\ Booked' \in {Booked, NoToken}
      BY <2>1 DEF Booked, Live
    <2>4. UNCHANGED <<Live, Pending, disowned>>
      BY <2>1, <2>2 DEF Live, Alive, Pending
    <2>5. CASE Booked' = Booked
      BY <2>4, <2>5 DEF Unseen
    <2>6. CASE Booked' = NoToken
      BY <2>3, <2>4, <2>6 DEF C!CustodyNext, C!Erase, Live, Booked, Pending
    <2>7. QED
      BY <2>3, <2>5, <2>6
  <1>7. QED
    BY <1>1, <1>2, <1>3, <1>4, <1>5, <1>6 DEF Serve

LEMMA ReconcileImplements == IInv /\ Reconcile => Unseen \/ C!CustodyNext
  <1> SUFFICES ASSUME IInv, Reconcile PROVE Unseen \/ C!CustodyNext
    OBVIOUS
  <1>1. Reconciled /\ UNCHANGED <<svc, disowned>>
    BY ReconcileDoes DEF ctlOnly
  <1>2. UNCHANGED <<Live, Pending, disowned>>
    BY <1>1, SameTokens DEF Reconciled, Pending
  <1>3. CASE lease' = lease
    BY <1>2, <1>3 DEF Unseen, Booked
  <1>4. CASE lease' = None /\ lease # None /\ ~Alive(lease.tok)
    <2>1. Booked \notin Live /\ Booked' = NoToken
      BY <1>4 DEF Booked, Live
    <2>2. QED
      BY <1>2, <2>1 DEF C!CustodyNext, C!Erase, Live, Booked, Pending
  <1>5. QED
    BY <1>1, <1>3, <1>4 DEF Reconciled

LEMMA ControlImplements == IInv /\ Control => Unseen \/ C!CustodyNext
  <1> SUFFICES ASSUME IInv, Control PROVE Unseen \/ C!CustodyNext
    OBVIOUS
  <1>1. UNCHANGED <<group, lease, Live, Booked>>
    BY DEF Control, StartServer, StartBlocked, StopServer, Removed, RemoveTimeout, DaemonStarts,
           DaemonDies, ctlOnly, Live, Alive, Booked
  <1>2. NoSvc.pc = "none" /\ NewSvc.pc = "backoff"
    BY DEF NoSvc, NewSvc
  <1>3. svc \in Svc
    BY DEF IInv, TypeOK
  <1>4. CASE DaemonDies /\ svc.pc = "record"
    <2>1. svc.tok \in Tokens /\ Pending = {svc.tok}
      BY <1>4 DEF IInv, ServeHolds, Pending
    <2>2. Pending' = {} /\ disowned' = disowned \cup {svc.tok}
      BY <1>2, <1>4 DEF DaemonDies, Pending
    <2>3. C!GiveUp(svc.tok)
      BY <1>1, <2>1, <2>2 DEF C!GiveUp, Live, Booked, Pending
    <2>4. QED
      BY <2>1, <2>3 DEF C!CustodyNext
  <1>5. CASE DaemonDies /\ svc.pc # "record"
    BY <1>1, <1>2, <1>5 DEF DaemonDies, Unseen, Pending
  <1>6. CASE StopServer
    <2>1. UNCHANGED disowned
      BY <1>6 DEF StopServer
    <2>2. UNCHANGED Pending
      <3>1. CASE svc.pc \in {"backoff", "done"}
        BY <1>2, <1>6, <3>1 DEF StopServer, Pending
      <3>2. CASE svc.pc \notin {"backoff", "done"}
        BY <1>3, <1>6, <3>2 DEF StopServer, Svc, Pending
      <3>3. QED
        BY <3>1, <3>2
    <2>3. QED
      BY <1>1, <2>1, <2>2 DEF Unseen
  <1>7. CASE StartServer \/ StartBlocked \/ Removed \/ RemoveTimeout
             \/ \E edited \in BOOLEAN : DaemonStarts(edited)
    BY <1>1, <1>2, <1>7
    DEF StartServer, StartBlocked, Removed, RemoveTimeout, DaemonStarts, ctlOnly, Unseen, Pending
  <1>8. QED
    BY <1>4, <1>5, <1>6, <1>7 DEF Control

(* A process that ends frees its group or leaves it to its child.          *)
LEMMA SystemImplements == IInv /\ System => Unseen \/ C!CustodyNext
  <1> SUFFICES ASSUME IInv, System PROVE Unseen \/ C!CustodyNext
    OBVIOUS
  <1>1. UNCHANGED <<lease, svc, disowned, Booked, Pending>>
    BY DEF System, Fork, LeaderDies, ChildDies, ForeignTakes, ForeignGoes, osOnly, Booked, Pending
  <1>2. PICK p \in Pgids : \/ \E kind \in {"ours", "scrubbed"} : Fork(p, kind)
                           \/ LeaderDies(p) \/ ChildDies(p)
                           \/ ForeignTakes(p) \/ ForeignGoes(p)
    BY DEF System
  <1>3. group \in [Pgids -> Group]
    BY DEF IInv, TypeOK
  <1>4. /\ \A q \in Pgids : q # p => group'[q].tok = group[q].tok
        /\ \/ group'[p].tok = group[p].tok
           \/ group[p].tok \in Tokens /\ group'[p].tok \notin Tokens
           \/ group[p].tok \notin Tokens /\ group'[p].tok \notin Tokens
    <2>1. CASE \E kind \in {"ours", "scrubbed"} : Fork(p, kind)
      BY <1>3, <2>1 DEF Fork, Group
    <2>2. CASE LeaderDies(p)
      BY <1>3, <2>2, Numbers DEF LeaderDies, Group, Ours
    <2>3. CASE ChildDies(p)
      BY <1>3, <2>3, Numbers DEF ChildDies, Group, Ours
    <2>4. CASE ForeignTakes(p)
      BY <1>3, <2>4, Numbers DEF ForeignTakes, Group
    <2>5. CASE ForeignGoes(p)
      BY <1>3, <2>5, Numbers DEF ForeignGoes, Group
    <2>6. QED
      BY <1>2, <2>1, <2>2, <2>3, <2>4, <2>5
  <1>5. CASE group[p].tok \in Tokens /\ group'[p].tok \notin Tokens
    <2> DEFINE b == group[p].tok
    <2>1. b \in Live
      BY <1>5 DEF Live, Alive
    <2>2. Live' = Live \ {b}
      BY <1>4, <1>5 DEF IInv, OneGroup, Live, Alive
    <2>3. C!End(b)
      BY <1>1, <2>1, <2>2 DEF C!End, Live, Booked, Pending
    <2>4. QED
      BY <1>5, <2>3 DEF C!CustodyNext
  <1>6. CASE \/ group'[p].tok = group[p].tok
             \/ group[p].tok \notin Tokens /\ group'[p].tok \notin Tokens
    BY <1>1, <1>4, <1>6 DEF Unseen, Live, Alive
  <1>7. QED
    BY <1>4, <1>5, <1>6

(* Spawn, Record, Release, a crash of the daemon and every death of a      *)
(* process are steps of Custody; all the rest leaves it alone.             *)
THEOREM Implements == Spec => ImplementsCustody
  <1>1. Init => C!CustodyInit
    BY Numbers DEF Init, C!CustodyInit, NoSvc, Alive
  <1>2. IInv /\ IInv' /\ [Next]_vars => [C!CustodyNext]_C!custodyVars
    <2> SUFFICES ASSUME IInv, IInv', [Next]_vars PROVE Unseen \/ C!CustodyNext
      BY DEF Unseen, Live, Booked, Pending, C!custodyVars
    <2>1. CASE UNCHANGED vars
      BY <2>1 DEF vars, Unseen, Live, Alive, Booked, Pending
    <2>2. QED
      BY <2>1, ServeImplements, ReconcileImplements, ControlImplements, SystemImplements DEF Next
  <1>3. QED
    BY <1>1, <1>2, Invariant, PTL DEF Spec, ImplementsCustody, C!CustodySpec

---------------------------------------------------------------------------
(* What follows of the leases from Custody alone.                          *)
LEMMA CustodyAccounts == C!CustodySpec => []C!Accounted
  <1>1. C!CustodyInit => C!Accounted
    BY DEF C!CustodyInit, C!Accounted
  <1>2. C!Accounted /\ [C!CustodyNext]_C!custodyVars => C!Accounted'
    <2> SUFFICES ASSUME C!Accounted, [C!CustodyNext]_C!custodyVars PROVE C!Accounted'
      OBVIOUS
    <2>1. ASSUME NEW b \in Tokens, C!Begin(b) PROVE C!Accounted'
      BY <2>1 DEF C!Begin, C!Accounted
    <2>2. ASSUME NEW b \in Tokens, C!Book(b) PROVE C!Accounted'
      BY <2>2 DEF C!Book, C!Accounted
    <2>3. ASSUME NEW b \in Tokens, C!GiveUp(b) PROVE C!Accounted'
      BY <2>3 DEF C!GiveUp, C!Accounted
    <2>4. ASSUME NEW b \in Tokens, C!End(b) PROVE C!Accounted'
      BY <2>4 DEF C!End, C!Accounted
    <2>5. CASE C!Erase
      BY <2>5 DEF C!Erase, C!Accounted
    <2>6. CASE UNCHANGED C!custodyVars
      BY <2>6 DEF C!custodyVars, C!Accounted
    <2>7. QED
      BY <2>1, <2>2, <2>3, <2>4, <2>5, <2>6 DEF C!CustodyNext
  <1>3. QED
    BY <1>1, <1>2, PTL DEF C!CustodySpec

LEMMA CustodyExcludes == C!CustodySpec => []C!OneInCharge
  <1>1. C!CustodyInit => C!OneInCharge
    BY DEF C!CustodyInit, C!OneInCharge
  <1>2. C!OneInCharge /\ [C!CustodyNext]_C!custodyVars => C!OneInCharge'
    <2> SUFFICES ASSUME C!OneInCharge, [C!CustodyNext]_C!custodyVars PROVE C!OneInCharge'
      OBVIOUS
    <2>1. ASSUME NEW b \in Tokens, C!Begin(b) PROVE C!OneInCharge'
      BY <2>1 DEF C!Begin, C!OneInCharge
    <2>2. ASSUME NEW b \in Tokens, C!Book(b) PROVE C!OneInCharge'
      BY <2>2 DEF C!Book, C!OneInCharge
    <2>3. ASSUME NEW b \in Tokens, C!GiveUp(b) PROVE C!OneInCharge'
      BY <2>3 DEF C!GiveUp, C!OneInCharge
    <2>4. ASSUME NEW b \in Tokens, C!End(b) PROVE C!OneInCharge'
      BY <2>4 DEF C!End, C!OneInCharge
    <2>5. CASE C!Erase
      BY <2>5 DEF C!Erase, C!OneInCharge
    <2>6. CASE UNCHANGED C!custodyVars
      BY <2>6 DEF C!custodyVars, C!OneInCharge
    <2>7. QED
      BY <2>1, <2>2, <2>3, <2>4, <2>5, <2>6 DEF C!CustodyNext
  <1>3. QED
    BY <1>1, <1>2, PTL DEF C!CustodySpec

(* A backend that runs and that nobody has given up is in the book or      *)
(* about to be: the next daemon finds it in the lease file.                *)
THEOREM AllAccounted == Spec => []C!Accounted
  BY Implements, CustodyAccounts, PTL DEF ImplementsCustody

(* Two backends of one server never run side by side, unless the cleanup   *)
(* of one was reported as failed or its daemon died before it was booked.  *)
THEOREM OnlyOneInCharge == Spec => []C!OneInCharge
  BY Implements, CustodyExcludes, PTL DEF ImplementsCustody
=============================================================================
