--------------------------- MODULE ToolCallProofs ---------------------------
(***************************************************************************)
(* Proofs about ToolCall for any number of calls, proxy sessions and keys, *)
(* any size of limiter and cache and any threshold of the breaker.         *)
(***************************************************************************)
EXTENDS ToolCall, FiniteSetTheorems, TLAPS

---------------------------------------------------------------------------
(* Types, of the variables the invariants speak of.                        *)
CallTypes ==
  /\ breaker \in [Proxies -> Breaker]
  /\ slots \in Int
  /\ call \in [Calls -> Call]
  /\ inflight \in [Keys -> Calls \cup {None}]

LEMMA CallValues ==
  /\ IdleCall \in Call
  /\ [IdleCall EXCEPT !.pc = "allow"] \in Call
  /\ \A k \in Keys : [IdleCall EXCEPT !.pc = "allow", !.key = k] \in Call
  /\ \A k \in Keys, d \in Calls :
       [IdleCall EXCEPT !.pc = "follow", !.key = k, !.lead = d] \in Call
  BY DEF IdleCall, Call

LEMMA CallUpdates ==
  ASSUME NEW r \in Call, NEW out \in {"none", "ok", "error"},
         NEW pc \in {"idle", "follow", "joined", "allow", "acquire", "session",
                     "sent", "release", "finish"}
  PROVE  /\ [r EXCEPT !.pc = pc] \in Call
         /\ [r EXCEPT !.pc = pc, !.out = out] \in Call
         /\ [r EXCEPT !.pc = pc, !.lead = None, !.out = out] \in Call
         /\ r.out \in {"none", "ok", "error"}
  BY DEF Call

LEMMA BreakerUpdates ==
  ASSUME NEW b \in Breaker
  PROVE  /\ RecordFailure(b) \in Breaker
         /\ [b EXCEPT !.status = "half", !.probeInFly = TRUE] \in Breaker
         /\ [b EXCEPT !.rested = TRUE] \in Breaker
         /\ [status |-> "closed", failures |-> 0, probeInFly |-> FALSE,
             rested |-> FALSE] \in Breaker
  <1>1. Threshold \in Nat \ {0} /\ b.failures \in 0 .. Threshold
    BY ConstantsAssumption DEF Breaker
  <1>2. RecordFailure(b) \in Breaker
    <2> DEFINE n == IF b.status = "half" \/ b.failures = Threshold
                    THEN Threshold ELSE b.failures + 1
    <2>1. n \in 0 .. Threshold
      BY <1>1
    <2> HIDE DEF n
    <2>2. [b EXCEPT !.failures = n, !.probeInFly = FALSE,
                    !.status   = IF n = Threshold THEN "open" ELSE b.status,
                    !.rested   = IF n = Threshold THEN FALSE ELSE b.rested] \in Breaker
      BY <2>1 DEF Breaker
    <2>3. QED
      BY <2>2 DEF n, RecordFailure
  <1>3. [b EXCEPT !.status = "half", !.probeInFly = TRUE] \in Breaker
    BY DEF Breaker
  <1>4. [b EXCEPT !.rested = TRUE] \in Breaker
    BY DEF Breaker
  <1>5. [status |-> "closed", failures |-> 0, probeInFly |-> FALSE,
         rested |-> FALSE] \in Breaker
    BY <1>1 DEF Breaker
  <1>6. QED
    BY <1>2, <1>3, <1>4, <1>5

LEMMA InitCallTypes == Init => CallTypes
  <1> SUFFICES ASSUME Init PROVE CallTypes
    OBVIOUS
  <1>1. [status |-> "closed", failures |-> 0, probeInFly |-> FALSE,
         rested |-> FALSE] \in Breaker
    BY ConstantsAssumption DEF Breaker
  <1>2. breaker \in [Proxies -> Breaker]
    BY <1>1 DEF Init
  <1>3. call \in [Calls -> Call]
    BY CallValues DEF Init
  <1>4. QED
    BY <1>2, <1>3 DEF Init, CallTypes

LEMMA StepCallTypes == CallTypes /\ [Next]_vars => CallTypes'
  <1> SUFFICES ASSUME CallTypes, [Next]_vars PROVE CallTypes'
    OBVIOUS
  <1> USE DEF CallTypes
  <1>1. ASSUME NEW c \in Calls, Arrive(c) PROVE CallTypes'
    <2>1. CASE CallTool(c)
      BY <2>1, CallValues DEF CallTool
    <2>2. ASSUME NEW k \in Keys, Lead(c, k) PROVE CallTypes'
      BY <2>2, CallValues DEF Lead
    <2>3. ASSUME NEW k \in Keys, Follow(c, k) PROVE CallTypes'
      <3>1. inflight[k] \in Calls
        BY <2>3 DEF Follow
      <3>2. QED
        BY <2>3, <3>1, CallValues DEF Follow
    <2>4. QED
      BY <1>1, <2>1, <2>2, <2>3 DEF Arrive
  <1>2. ASSUME NEW c \in Calls, Cancelled(c) PROVE CallTypes'
    <2>1. CASE FollowerCancelled(c)
      BY <2>1, CallValues DEF FollowerCancelled
    <2>2. CASE AcquireCancelled(c)
      BY <2>2, CallUpdates DEF AcquireCancelled, Return
    <2>3. QED
      BY <1>2, <2>1, <2>2 DEF Cancelled
  <1>3. ASSUME NEW c \in Calls, CallStep(c) PROVE CallTypes'
    <2>1. CASE FollowerReturns(c)
      BY <2>1, CallValues DEF FollowerReturns
    <2>2. CASE Allow(c)
      BY <2>2, CallUpdates, BreakerUpdates, ConstantsAssumption DEF Allow, Goto
    <2>3. CASE CircuitOpen(c)
      BY <2>3, CallUpdates DEF CircuitOpen, Return
    <2>4. CASE Downstream(c) \/ NoDownstream(c)
      <3>1. call' \in [Calls -> Call]
        <4>1. CASE Downstream(c)
          BY <4>1, CallUpdates DEF Downstream, Goto
        <4>2. CASE NoDownstream(c)
          BY <4>2, CallUpdates DEF NoDownstream, Return
        <4>3. QED
          BY <2>4, <4>1, <4>2
      <3>2. QED
        BY <2>4, <3>1 DEF Downstream, NoDownstream
    <2>5. CASE Answered(c)
      <3>1. breaker' \in [Proxies -> Breaker]
        <4>1. [status |-> "closed", failures |-> 0, probeInFly |-> FALSE,
               rested |-> FALSE] \in Breaker
          BY ConstantsAssumption DEF Breaker
        <4>2. QED
          BY <2>5, <4>1 DEF Answered
      <3>2. call' \in [Calls -> Call]
        BY <2>5, CallUpdates DEF Answered, Return
      <3>3. QED
        BY <2>5, <3>1, <3>2 DEF Answered
    <2>6. ASSUME NEW retryable \in BOOLEAN, CallFails(c, retryable) PROVE CallTypes'
      <3>1. breaker' \in [Proxies -> Breaker]
        BY <2>6, BreakerUpdates, ConstantsAssumption DEF CallFails
      <3>2. call' \in [Calls -> Call]
        BY <2>6, CallUpdates DEF CallFails, Return
      <3>3. QED
        BY <2>6, <3>1, <3>2 DEF CallFails
    <2>7. CASE Release(c)
      <3>1. call' \in [Calls -> Call]
        <4>1. [call[c] EXCEPT !.pc = "finish"] \in Call
          BY CallUpdates
        <4>2. QED
          BY <2>7, <4>1 DEF Release, Goto
      <3>2. slots' \in Int
        BY <2>7 DEF Release
      <3>3. QED
        BY <2>7, <3>1, <3>2 DEF Release
    <2>8. CASE Finish(c)
      <3>1. call' \in [Calls -> Call]
        <4>1. ASSUME NEW d \in Calls
              PROVE  [call[d] EXCEPT !.pc = "joined", !.lead = None,
                                     !.out = call[c].out] \in Call
          <5>1. call[c].out \in {"none", "ok", "error"} /\ call[d] \in Call
            BY DEF Call
          <5>2. QED
            BY <5>1, CallUpdates
        <4>2. Joined(c) \in [Calls -> Call]
          BY <4>1, CallValues DEF Joined
        <4>3. QED
          BY <2>8, <4>2 DEF Finish
      <3>2. QED
        BY <2>8, <3>1 DEF Finish
    <2>9. QED
      BY <1>3, <2>1, <2>2, <2>3, <2>4, <2>5, <2>6, <2>7, <2>8 DEF CallStep
  <1>4. ASSUME NEW c \in Calls, Acquire(c) PROVE CallTypes'
    <2>1. call' \in [Calls -> Call]
      <3>1. [call[c] EXCEPT !.pc = "session"] \in Call
        BY CallUpdates
      <3>2. QED
        BY <1>4, <3>1 DEF Acquire, Goto
    <2>2. slots' \in Int
      BY <1>4 DEF Acquire
    <2>3. QED
      BY <1>4, <2>1, <2>2 DEF Acquire
  <1>5. ASSUME NEW i \in DOMAIN cache, Expire(i) PROVE CallTypes'
    BY <1>5 DEF Expire
  <1>6. ASSUME NEW p \in Proxies, RecoveryTimeout(p) PROVE CallTypes'
    <2>1. [breaker[p] EXCEPT !.rested = TRUE] \in Breaker
      BY BreakerUpdates
    <2>2. breaker' \in [Proxies -> Breaker]
      BY <1>6, <2>1 DEF RecoveryTimeout
    <2>3. QED
      BY <1>6, <2>2 DEF RecoveryTimeout
  <1>7. CASE UNCHANGED vars
    BY <1>7 DEF vars
  <1>8. QED
    BY <1>1, <1>2, <1>3, <1>4, <1>5, <1>6, <1>7 DEF Next

LEMMA CallTypesInvariant == Spec => []CallTypes
  BY InitCallTypes, StepCallTypes, PTL DEF Spec

---------------------------------------------------------------------------
(* The circuit breaker.                                                    *)
Consistent(b) ==
  /\ b.status = "closed" => b.failures < Threshold
  /\ b.status # "closed" => b.failures = Threshold
  /\ (b.status = "half") <=> b.probeInFly

(* Each of the four updates keeps one breaker consistent.                  *)
LEMMA ConsistentUpdates ==
  ASSUME NEW b \in Breaker, Consistent(b)
  PROVE  /\ Consistent(RecordFailure(b))
         /\ b.status # "closed" =>
              Consistent([b EXCEPT !.status = "half", !.probeInFly = TRUE])
         /\ Consistent([b EXCEPT !.rested = TRUE])
         /\ Consistent([status |-> "closed", failures |-> 0, probeInFly |-> FALSE,
                        rested |-> FALSE])
  <1>1. Threshold \in Nat \ {0} /\ b.failures \in 0 .. Threshold
    BY ConstantsAssumption DEF Breaker
  <1>2. Consistent(RecordFailure(b))
    BY <1>1 DEF Breaker, Consistent, RecordFailure
  <1>3. b.status # "closed" =>
          Consistent([b EXCEPT !.status = "half", !.probeInFly = TRUE])
    BY DEF Breaker, Consistent
  <1>4. Consistent([b EXCEPT !.rested = TRUE])
    BY DEF Breaker, Consistent
  <1>5. Consistent([status |-> "closed", failures |-> 0, probeInFly |-> FALSE,
                    rested |-> FALSE])
    BY <1>1 DEF Consistent
  <1>6. QED
    BY <1>2, <1>3, <1>4, <1>5

(* A step changes at most one breaker, by one of those updates.            *)
LEMMA BreakerStep ==
  ASSUME CallTypes, [Next]_vars, NEW p \in Proxies
  PROVE  \/ breaker'[p] = breaker[p]
         \/ breaker'[p] = RecordFailure(breaker[p])
         \/ /\ breaker[p].status # "closed"
            /\ breaker'[p] = [breaker[p] EXCEPT !.status = "half", !.probeInFly = TRUE]
         \/ breaker'[p] = [breaker[p] EXCEPT !.rested = TRUE]
         \/ breaker'[p] = [status |-> "closed", failures |-> 0, probeInFly |-> FALSE,
                           rested |-> FALSE]
  <1> USE DEF CallTypes
  <1>1. ASSUME NEW c \in Calls, Allow(c)
        PROVE  \/ breaker'[p] = breaker[p]
               \/ /\ breaker[p].status # "closed"
                  /\ breaker'[p] = [breaker[p] EXCEPT !.status = "half",
                                                      !.probeInFly = TRUE]
    BY <1>1, ConstantsAssumption DEF Allow
  <1>2. ASSUME NEW c \in Calls, Answered(c)
        PROVE  \/ breaker'[p] = breaker[p]
               \/ breaker'[p] = [status |-> "closed", failures |-> 0,
                                 probeInFly |-> FALSE, rested |-> FALSE]
    BY <1>2, ConstantsAssumption DEF Answered
  <1>3. ASSUME NEW c \in Calls, NEW retryable \in BOOLEAN, CallFails(c, retryable)
        PROVE  breaker'[p] = breaker[p] \/ breaker'[p] = RecordFailure(breaker[p])
    BY <1>3, ConstantsAssumption DEF CallFails
  <1>4. ASSUME NEW q \in Proxies, RecoveryTimeout(q)
        PROVE  breaker'[p] = breaker[p]
               \/ breaker'[p] = [breaker[p] EXCEPT !.rested = TRUE]
    BY <1>4 DEF RecoveryTimeout
  <1>5. ASSUME NEW c \in Calls, Arrive(c) \/ Cancelled(c) \/ Acquire(c)
        PROVE  breaker' = breaker
    BY <1>5 DEF Arrive, CallTool, Lead, Follow, Cancelled, FollowerCancelled,
                AcquireCancelled, Acquire
  <1>6. ASSUME NEW c \in Calls,
               FollowerReturns(c) \/ CircuitOpen(c) \/ Downstream(c)
               \/ NoDownstream(c) \/ Release(c) \/ Finish(c)
        PROVE  breaker' = breaker
    BY <1>6 DEF FollowerReturns, CircuitOpen, Downstream, NoDownstream, Release, Finish
  <1>7. ASSUME NEW i \in DOMAIN cache, Expire(i) PROVE breaker' = breaker
    BY <1>7 DEF Expire
  <1>8. UNCHANGED vars => breaker' = breaker
    BY DEF vars
  <1>9. QED
    BY <1>1, <1>2, <1>3, <1>4, <1>5, <1>6, <1>7, <1>8 DEF Next, CallStep

(* Whatever order results arrive in, status, count and probe of a breaker  *)
(* agree (allow, recordSuccess, recordFailure in resilience.go).           *)
THEOREM CircuitConsistent == Spec => []BreakerConsistent
  <1>1. BreakerConsistent <=> \A p \in Proxies : Consistent(breaker[p])
    BY DEF BreakerConsistent, Consistent
  <1>2. BreakerConsistent' <=> \A p \in Proxies : Consistent(breaker'[p])
    BY DEF BreakerConsistent, Consistent
  <1>3. Init => BreakerConsistent
    BY ConstantsAssumption DEF Init, BreakerConsistent
  <1>4. CallTypes /\ BreakerConsistent /\ [Next]_vars => BreakerConsistent'
    <2> SUFFICES ASSUME CallTypes, BreakerConsistent, [Next]_vars, NEW p \in Proxies
                 PROVE  Consistent(breaker'[p])
      BY <1>2
    <2>1. breaker[p] \in Breaker /\ Consistent(breaker[p])
      BY <1>1 DEF CallTypes
    <2>2. QED
      BY <2>1, BreakerStep, ConsistentUpdates
  <1>5. QED
    BY <1>3, <1>4, CallTypesInvariant, PTL DEF Spec

---------------------------------------------------------------------------
(* Coalescing.  OneCallPerKey says what the table and the waiters point    *)
(* at; it is inductive with the converse, that a leading call is the one   *)
(* in the table, and with lead being set in followers only.                *)
LeadInv ==
  /\ \A c \in Calls : Leading(c) => inflight[call[c].key] = c
  /\ \A k \in Keys : inflight[k] # None =>
       inflight[k] \in Calls /\ Leading(inflight[k]) /\ call[inflight[k]].key = k
  /\ \A c \in Calls : call[c].pc = "follow" =>
       /\ call[c].lead \in Calls /\ Leading(call[c].lead)
       /\ call[call[c].lead].key = call[c].key
  /\ \A c \in Calls : call[c].lead # None <=> call[c].pc = "follow"

Aside == {"idle", "follow", "joined"}

(* What a step does to one call whose handler goes on or returns early:    *)
(* its program counter moves along the path of callDownstreamTool, and     *)
(* nothing the coordinator reads changes.                                  *)
Proceeds(c) ==
  /\ call[c].pc \notin Aside /\ call'[c].pc \notin Aside
  /\ call'[c].key = call[c].key /\ call'[c].lead = call[c].lead
  /\ \A d \in Calls : d # c => call'[d] = call[d]
  /\ inflight' = inflight

LEMMA PathProceeds ==
  ASSUME CallTypes, NEW c \in Calls,
         \/ Allow(c) \/ CircuitOpen(c) \/ Acquire(c) \/ AcquireCancelled(c)
         \/ Downstream(c) \/ NoDownstream(c) \/ Answered(c) \/ Release(c)
         \/ \E retryable \in BOOLEAN : CallFails(c, retryable)
  PROVE  Proceeds(c)
  <1> USE DEF CallTypes, Proceeds, Aside
  <1>1. call[c] \in Call /\ call \in [Calls -> Call]
    OBVIOUS
  <1>2. CASE Allow(c)
    BY <1>1, <1>2 DEF Allow, Goto, Call
  <1>3. CASE CircuitOpen(c)
    BY <1>1, <1>3 DEF CircuitOpen, Return, Call
  <1>4. CASE Acquire(c)
    BY <1>1, <1>4 DEF Acquire, Goto, Call
  <1>5. CASE AcquireCancelled(c)
    BY <1>1, <1>5 DEF AcquireCancelled, Return, Call
  <1>6. CASE Downstream(c)
    BY <1>1, <1>6 DEF Downstream, Goto, Call
  <1>7. CASE NoDownstream(c)
    BY <1>1, <1>7 DEF NoDownstream, Return, Call
  <1>8. CASE Answered(c)
    BY <1>1, <1>8 DEF Answered, Return, Call
  <1>9. CASE Release(c)
    BY <1>1, <1>9 DEF Release, Goto, Call
  <1>10. ASSUME NEW retryable \in BOOLEAN, CallFails(c, retryable) PROVE Proceeds(c)
    BY <1>1, <1>10 DEF CallFails, Return, Call
  <1>11. QED
    BY <1>2, <1>3, <1>4, <1>5, <1>6, <1>7, <1>8, <1>9, <1>10

LEMMA ProceedingKeepsLeads ==
  ASSUME CallTypes, LeadInv, NEW c \in Calls, Proceeds(c)
  PROVE  LeadInv'
  <1>1. \A d \in Calls : /\ call'[d].key = call[d].key /\ call'[d].lead = call[d].lead
                         /\ call'[d].pc = "follow" <=> call[d].pc = "follow"
                         /\ call'[d].pc \in Aside <=> call[d].pc \in Aside
    BY DEF Proceeds, Aside
  <1>2. \A d \in Calls : Leading(d)' <=> Leading(d)
    BY <1>1 DEF Leading, Aside
  <1>3. inflight' = inflight
    BY DEF Proceeds
  <1>4. \A d \in Calls : Leading(d)' => inflight'[call'[d].key] = d
    BY <1>1, <1>2, <1>3 DEF LeadInv
  <1>5. \A k \in Keys : inflight'[k] # None =>
          inflight'[k] \in Calls /\ Leading(inflight[k])' /\ call'[inflight'[k]].key = k
    BY <1>1, <1>2, <1>3 DEF LeadInv
  <1>6. \A d \in Calls : call'[d].pc = "follow" =>
          /\ call'[d].lead \in Calls /\ Leading(call[d].lead)'
          /\ call'[call'[d].lead].key = call'[d].key
    BY <1>1, <1>2 DEF LeadInv
  <1>7. \A d \in Calls : call'[d].lead # None <=> call'[d].pc = "follow"
    BY <1>1 DEF LeadInv
  <1>8. QED
    BY <1>4, <1>5, <1>6, <1>7 DEF LeadInv

(* A call that was aside and stays aside without waiting for anybody.      *)
LEMMA AsideKeepsLeads ==
  ASSUME CallTypes, LeadInv, NEW c \in Calls, NEW r \in Call,
         call[c].pc \in Aside, call' = [call EXCEPT ![c] = r],
         r.key = None \/ r.pc \in Aside, r.lead = None, r.pc # "follow",
         inflight' = inflight
  PROVE  LeadInv'
  <1>1. \A d \in Calls : call'[d] = IF d = c THEN r ELSE call[d]
    BY DEF CallTypes
  <1>2. ~Leading(c) /\ ~Leading(c)'
    BY <1>1 DEF Leading, Aside
  <1>3. \A d \in Calls : Leading(d)' <=> Leading(d)
    BY <1>1, <1>2 DEF Leading
  <1>4. \A d \in Calls : Leading(d)' => inflight'[call'[d].key] = d
    BY <1>1, <1>2, <1>3 DEF LeadInv
  <1>5. \A k \in Keys : inflight'[k] # None =>
          inflight'[k] \in Calls /\ Leading(inflight[k])' /\ call'[inflight'[k]].key = k
    BY <1>1, <1>2, <1>3 DEF LeadInv
  <1>6. \A d \in Calls : call'[d].pc = "follow" =>
          /\ call'[d].lead \in Calls /\ Leading(call[d].lead)'
          /\ call'[call'[d].lead].key = call'[d].key
    BY <1>1, <1>2, <1>3 DEF LeadInv
  <1>7. \A d \in Calls : call'[d].lead # None <=> call'[d].pc = "follow"
    BY <1>1 DEF LeadInv
  <1>8. QED
    BY <1>4, <1>5, <1>6, <1>7 DEF LeadInv

LEMMA LeadKeepsLeads ==
  ASSUME CallTypes, LeadInv, NEW c \in Calls, NEW k \in Keys, Lead(c, k)
  PROVE  LeadInv'
  <1> DEFINE r == [IdleCall EXCEPT !.pc = "allow", !.key = k]
  <1>1. r.pc = "allow" /\ r.key = k /\ r.lead = None
    BY DEF IdleCall
  <1> HIDE DEF r
  <1>2. \A d \in Calls : call'[d] = IF d = c THEN r ELSE call[d]
    BY DEF CallTypes, Lead, r
  <1>3. /\ inflight[k] = None /\ call[c].pc = "idle"
        /\ \A j \in Keys : inflight'[j] = IF j = k THEN c ELSE inflight[j]
    BY DEF CallTypes, Lead
  <1>4. ~Leading(c) /\ Leading(c)' /\ c # None /\ k # None
    BY <1>1, <1>2, <1>3, ConstantsAssumption DEF Leading
  <1>5. \A d \in Calls : d # c => (Leading(d)' <=> Leading(d))
    BY <1>2 DEF Leading
  <1>6. \A d \in Calls : Leading(d) => call[d].key \in Keys /\ call[d].key # k
    BY <1>3, ConstantsAssumption DEF LeadInv, CallTypes, Call, Leading
  <1>7. \A d \in Calls : Leading(d)' => inflight'[call'[d].key] = d
    BY <1>1, <1>2, <1>3, <1>5, <1>6 DEF LeadInv
  <1>8. \A j \in Keys : inflight'[j] # None =>
          inflight'[j] \in Calls /\ Leading(inflight[j])' /\ call'[inflight'[j]].key = j
    <2> SUFFICES ASSUME NEW j \in Keys, inflight'[j] # None
                 PROVE  inflight'[j] \in Calls /\ Leading(inflight[j])'
                        /\ call'[inflight'[j]].key = j
      OBVIOUS
    <2>1. CASE j = k
      <3>1. inflight'[j] = c
        BY <2>1, <1>3
      <3>2. QED
        BY <3>1, <2>1, <1>1, <1>2, <1>3, <1>4 DEF Leading
    <2>2. CASE j # k
      <3>1. inflight'[j] = inflight[j] /\ inflight[j] \in Calls
            /\ Leading(inflight[j]) /\ call[inflight[j]].key = j
        BY <2>2, <1>3 DEF LeadInv
      <3>2. inflight[j] # c
        BY <3>1, <1>4
      <3>3. call'[inflight[j]] = call[inflight[j]]
        BY <3>1, <3>2, <1>2
      <3>4. QED
        BY <3>1, <3>3 DEF Leading
    <2>3. QED
      BY <2>1, <2>2
  <1>9. \A d \in Calls : call'[d].pc = "follow" =>
          /\ call'[d].lead \in Calls /\ Leading(call[d].lead)'
          /\ call'[call'[d].lead].key = call'[d].key
    <2> SUFFICES ASSUME NEW d \in Calls, call'[d].pc = "follow"
                 PROVE  /\ call'[d].lead \in Calls /\ Leading(call[d].lead)'
                        /\ call'[call'[d].lead].key = call'[d].key
      OBVIOUS
    <2>1. call'[d] = call[d]
      BY <1>1, <1>2
    <2>2. /\ call[d].lead \in Calls /\ Leading(call[d].lead)
          /\ call[call[d].lead].key = call[d].key
      BY <2>1 DEF LeadInv
    <2>3. call'[call[d].lead] = call[call[d].lead]
      BY <2>2, <1>2, <1>4
    <2>4. QED
      BY <2>1, <2>2, <2>3 DEF Leading
  <1>10. \A d \in Calls : call'[d].lead # None <=> call'[d].pc = "follow"
    BY <1>1, <1>2 DEF LeadInv
  <1>11. QED
    BY <1>7, <1>8, <1>9, <1>10 DEF LeadInv

LEMMA FollowKeepsLeads ==
  ASSUME CallTypes, LeadInv, NEW c \in Calls, NEW k \in Keys, Follow(c, k)
  PROVE  LeadInv'
  <1> DEFINE r == [IdleCall EXCEPT !.pc = "follow", !.key = k, !.lead = inflight[k]]
  <1>1. r.pc = "follow" /\ r.key = k /\ r.lead = inflight[k]
    BY DEF IdleCall
  <1> HIDE DEF r
  <1>2. \A d \in Calls : call'[d] = IF d = c THEN r ELSE call[d]
    BY DEF CallTypes, Follow, r
  <1>3. /\ inflight[k] # None /\ call[c].pc = "idle" /\ inflight' = inflight
        /\ inflight[k] \in Calls /\ Leading(inflight[k]) /\ call[inflight[k]].key = k
    BY DEF Follow, LeadInv
  <1>4. ~Leading(c) /\ ~Leading(c)'
    BY <1>1, <1>2, <1>3 DEF Leading
  <1>5. \A d \in Calls : Leading(d)' <=> Leading(d)
    BY <1>2, <1>4 DEF Leading
  <1>6. \A d \in Calls : Leading(d)' => inflight'[call'[d].key] = d
    BY <1>2, <1>3, <1>4, <1>5 DEF LeadInv
  <1>7. \A j \in Keys : inflight'[j] # None =>
          inflight'[j] \in Calls /\ Leading(inflight[j])' /\ call'[inflight'[j]].key = j
    BY <1>2, <1>3, <1>4, <1>5 DEF LeadInv
  <1>8. \A d \in Calls : call'[d].pc = "follow" =>
          /\ call'[d].lead \in Calls /\ Leading(call[d].lead)'
          /\ call'[call'[d].lead].key = call'[d].key
    BY <1>1, <1>2, <1>3, <1>4, <1>5 DEF LeadInv
  <1>9. \A d \in Calls : call'[d].lead # None <=> call'[d].pc = "follow"
    BY <1>1, <1>2, <1>3 DEF LeadInv
  <1>10. QED
    BY <1>6, <1>7, <1>8, <1>9 DEF LeadInv

(* Every follower of the leader is woken.                                  *)
LEMMA FinishWakes ==
  ASSUME CallTypes, LeadInv, NEW c \in Calls, Finish(c), NEW d \in Calls,
         d # c, call[d].lead = c
  PROVE  call[d].pc = "follow" /\ call'[d].pc = "joined" /\ call'[d].lead = None
  <1>1. call[d].pc = "follow"
    BY ConstantsAssumption DEF LeadInv
  <1>2. call'[d] = [call[d] EXCEPT !.pc = "joined", !.lead = None, !.out = call[c].out]
    BY DEF Finish, Joined
  <1>3. call[d] \in [pc: {"idle", "follow", "joined", "allow", "acquire", "session",
                          "sent", "release", "finish"},
                     key: Keys \cup {None}, lead: Calls \cup {None},
                     out: {"none", "ok", "error"}]
    BY DEF CallTypes, Call
  <1>4. QED
    BY <1>1, <1>2, <1>3

(* The leader leaves the table and takes every follower of its with it.    *)
LEMMA FinishKeepsLeads ==
  ASSUME CallTypes, LeadInv, NEW c \in Calls, Finish(c)
  PROVE  LeadInv'
  <1>1. /\ call[c].pc = "finish" /\ c # None /\ call[c].lead = None
        /\ \A k \in Keys : inflight'[k] = IF k = call[c].key THEN None ELSE inflight[k]
    BY ConstantsAssumption DEF Finish, LeadInv
  <1>2. \A d \in Calls : d # c /\ call[d].lead # c => call'[d] = call[d]
    BY DEF Finish, Joined
  <1>3. call'[c].pc = "idle" /\ call'[c].lead = None
    BY DEF Finish, Joined, IdleCall
  <1>4. \A d \in Calls : d # c /\ call[d].lead = c =>
          call[d].pc = "follow" /\ call'[d].pc = "joined" /\ call'[d].lead = None
    BY FinishWakes
  <1>5. \A d \in Calls : Leading(d)' => d # c /\ Leading(d) /\ call'[d] = call[d]
    BY <1>2, <1>3, <1>4 DEF Leading
  <1>6. \A d \in Calls : Leading(d) /\ d # c => call'[d] = call[d]
    BY <1>2, <1>4 DEF Leading
  <1>7. \A d \in Calls : Leading(d)' => inflight'[call'[d].key] = d
    <2> SUFFICES ASSUME NEW d \in Calls, Leading(d)'
                 PROVE  inflight'[call'[d].key] = d
      OBVIOUS
    <2>1. d # c /\ Leading(d) /\ call'[d] = call[d] /\ inflight[call[d].key] = d
      BY <1>5 DEF LeadInv
    <2>2. call[d].key \in Keys /\ call[d].key # None
      BY <2>1 DEF Leading, CallTypes, Call
    <2>3. call[d].key # call[c].key
      BY <1>1, <2>1, <2>2 DEF LeadInv, Leading
    <2>4. QED
      BY <1>1, <2>1, <2>2, <2>3
  <1>8. \A k \in Keys : inflight'[k] # None =>
          inflight'[k] \in Calls /\ Leading(inflight[k])' /\ call'[inflight'[k]].key = k
    <2> SUFFICES ASSUME NEW k \in Keys, inflight'[k] # None
                 PROVE  inflight'[k] \in Calls /\ Leading(inflight[k])'
                        /\ call'[inflight'[k]].key = k
      OBVIOUS
    <2>1. k # call[c].key /\ inflight'[k] = inflight[k] /\ inflight[k] \in Calls
          /\ Leading(inflight[k]) /\ call[inflight[k]].key = k
      BY <1>1 DEF LeadInv
    <2>2. call'[inflight[k]] = call[inflight[k]]
      BY <1>6, <2>1
    <2>3. QED
      BY <2>1, <2>2 DEF Leading
  <1>9. \A d \in Calls : call'[d].pc = "follow" =>
          /\ call'[d].lead \in Calls /\ Leading(call[d].lead)'
          /\ call'[call'[d].lead].key = call'[d].key
    <2> SUFFICES ASSUME NEW d \in Calls, call'[d].pc = "follow"
                 PROVE  /\ call'[d].lead \in Calls /\ Leading(call[d].lead)'
                        /\ call'[call'[d].lead].key = call'[d].key
      OBVIOUS
    <2>1. d # c /\ call[d].lead # c /\ call'[d] = call[d]
      BY <1>2, <1>3, <1>4
    <2>2. /\ call[d].lead \in Calls /\ Leading(call[d].lead)
          /\ call[call[d].lead].key = call[d].key
      BY <2>1 DEF LeadInv
    <2>3. call'[call[d].lead] = call[call[d].lead]
      BY <1>6, <2>1, <2>2
    <2>4. QED
      BY <2>1, <2>2, <2>3 DEF Leading
  <1>10. \A d \in Calls : call'[d].lead # None <=> call'[d].pc = "follow"
    BY <1>2, <1>3, <1>4 DEF LeadInv
  <1>11. QED
    BY <1>7, <1>8, <1>9, <1>10 DEF LeadInv

LEMMA StepLeadInv == CallTypes /\ LeadInv /\ [Next]_vars => LeadInv'
  <1> SUFFICES ASSUME CallTypes, LeadInv, [Next]_vars PROVE LeadInv'
    OBVIOUS
  <1>1. ASSUME NEW c \in Calls, CallTool(c) PROVE LeadInv'
    <2>1. LET r == [IdleCall EXCEPT !.pc = "allow"]
          IN  r \in Call /\ r.key = None /\ r.lead = None /\ r.pc # "follow"
      BY CallValues DEF IdleCall
    <2>2. call[c].pc \in Aside /\ inflight' = inflight
      BY <1>1 DEF CallTool, Aside
    <2>3. QED
      BY <1>1, <2>1, <2>2, AsideKeepsLeads DEF CallTool
  <1>2. ASSUME NEW c \in Calls, FollowerReturns(c) \/ FollowerCancelled(c) PROVE LeadInv'
    <2>1. IdleCall \in Call /\ IdleCall.key = None /\ IdleCall.lead = None
          /\ IdleCall.pc # "follow"
      BY CallValues DEF IdleCall
    <2>2. call[c].pc \in Aside /\ inflight' = inflight
          /\ call' = [call EXCEPT ![c] = IdleCall]
      BY <1>2 DEF FollowerReturns, FollowerCancelled, Aside
    <2>3. QED
      BY <2>1, <2>2, AsideKeepsLeads
  <1>3. ASSUME NEW c \in Calls, NEW k \in Keys, Lead(c, k) \/ Follow(c, k) PROVE LeadInv'
    BY <1>3, LeadKeepsLeads, FollowKeepsLeads
  <1>4. ASSUME NEW c \in Calls, Acquire(c) \/ AcquireCancelled(c) PROVE LeadInv'
    BY <1>4, PathProceeds, ProceedingKeepsLeads
  <1>5. ASSUME NEW c \in Calls, CallStep(c) PROVE LeadInv'
    BY <1>2, <1>5, PathProceeds, ProceedingKeepsLeads, FinishKeepsLeads DEF CallStep
  <1>6. (\/ \E i \in DOMAIN cache : Expire(i)
         \/ \E p \in Proxies : RecoveryTimeout(p)) => LeadInv'
    <2>1. call' = call /\ inflight' = inflight => LeadInv'
      BY DEF LeadInv, Leading
    <2>2. QED
      BY <2>1 DEF Expire, RecoveryTimeout, vars
  <1>7. UNCHANGED vars => LeadInv'
    BY DEF vars, LeadInv, Leading
  <1>8. QED
    BY <1>1, <1>2, <1>3, <1>4, <1>5, <1>6, <1>7 DEF Next, Arrive, Cancelled

LEMMA LeadInvariant == Spec => []LeadInv
  <1>1. Init => LeadInv
    <2> SUFFICES ASSUME Init PROVE LeadInv
      OBVIOUS
    <2>1. \A c \in Calls : call[c].pc = "idle" /\ call[c].lead = None /\ call[c].key = None
      BY DEF Init, IdleCall
    <2>2. \A k \in Keys : inflight[k] = None
      BY DEF Init
    <2>3. QED
      BY <2>1, <2>2 DEF LeadInv, Leading
  <1>2. QED
    BY <1>1, StepLeadInv, CallTypesInvariant, PTL DEF Spec

(* Equal shared calls run once, and whoever waits for an answer waits for  *)
(* a call that is still on its way (sharedToolCoordinator.execute).        *)
THEOREM SingleFlight == Spec => []OneCallPerKey
  <1>1. LeadInv => OneCallPerKey
    BY DEF LeadInv, OneCallPerKey
  <1>2. QED
    BY <1>1, LeadInvariant, PTL

---------------------------------------------------------------------------
(* The limiter.                                                            *)
Holding == {c \in Calls : call[c].pc \in {"session", "sent", "release"}}

LimiterExact ==
  MaxInFlight > 0 => slots = Cardinality(Holding) /\ slots <= MaxInFlight

(* A step other than the two channel operations moves no call into or out  *)
(* of the section that holds a token.                                      *)
LEMMA OthersHoldStill ==
  ASSUME CallTypes, LeadInv, [Next]_vars,
         \A c \in Calls : ~Acquire(c) /\ ~Release(c)
  PROVE  Holding' = Holding /\ slots' = slots
  <1> DEFINE Still == /\ \A d \in Calls : call'[d].pc \in {"session", "sent", "release"}
                                          <=> call[d].pc \in {"session", "sent", "release"}
                      /\ slots' = slots
  <1>1. Still => Holding' = Holding /\ slots' = slots
    BY DEF Holding
  <1> HIDE DEF Still
  <1> USE DEF CallTypes
  <1>2. ASSUME NEW c \in Calls, NEW r, r.pc \notin {"session", "sent", "release"},
               call[c].pc \notin {"session", "sent", "release"},
               call' = [call EXCEPT ![c] = r], slots' = slots
        PROVE  Still
    BY <1>2 DEF Still
  <1>3. ASSUME NEW c \in Calls, Arrive(c) PROVE Still
    <2>1. CASE CallTool(c)
      BY <2>1, <1>2 DEF CallTool, IdleCall
    <2>2. ASSUME NEW k \in Keys, Lead(c, k) PROVE Still
      BY <2>2, <1>2 DEF Lead, IdleCall
    <2>3. ASSUME NEW k \in Keys, Follow(c, k) PROVE Still
      BY <2>3, <1>2 DEF Follow, IdleCall
    <2>4. QED
      BY <1>3, <2>1, <2>2, <2>3 DEF Arrive
  <1>4. ASSUME NEW c \in Calls, FollowerReturns(c) \/ FollowerCancelled(c) PROVE Still
    BY <1>4, <1>2 DEF FollowerReturns, FollowerCancelled, IdleCall
  <1>5. ASSUME NEW c \in Calls, AcquireCancelled(c) \/ Allow(c) \/ CircuitOpen(c)
        PROVE  Still
    <2>1. call[c] \in Call
      OBVIOUS
    <2>2. CASE AcquireCancelled(c)
      BY <2>1, <2>2 DEF AcquireCancelled, Return, Call, Still
    <2>3. CASE Allow(c)
      BY <2>1, <2>3 DEF Allow, Goto, Call, Still
    <2>4. CASE CircuitOpen(c)
      BY <2>1, <2>4 DEF CircuitOpen, Return, Call, Still
    <2>5. QED
      BY <1>5, <2>2, <2>3, <2>4
  <1>6. ASSUME NEW c \in Calls, Downstream(c) PROVE Still
    BY <1>6 DEF Downstream, Goto, Call, Still
  <1>7. ASSUME NEW c \in Calls,
               NoDownstream(c) \/ Answered(c)
               \/ \E retryable \in BOOLEAN : CallFails(c, retryable)
        PROVE  Still
    <2>1. call[c].pc \in {"session", "sent"} /\ slots' = slots
          /\ Return(c, "release", IF Answered(c) THEN "ok" ELSE "error")
      BY <1>7 DEF NoDownstream, Answered, CallFails
    <2>2. QED
      BY <2>1 DEF Return, Call, Still
  <1>8. ASSUME NEW c \in Calls, Finish(c) PROVE Still
    <2>1. call[c].pc = "finish" /\ c # None /\ slots' = slots
      BY <1>8, ConstantsAssumption DEF Finish
    <2>2. call'[c].pc = "idle"
      BY <1>8 DEF Finish, Joined, IdleCall
    <2>3. \A d \in Calls : d # c /\ call[d].lead # c => call'[d] = call[d]
      BY <1>8 DEF Finish, Joined
    <2>4. \A d \in Calls : d # c /\ call[d].lead = c =>
            call[d].pc = "follow" /\ call'[d].pc = "joined"
      BY <1>8, FinishWakes
    <2>5. QED
      BY <2>1, <2>2, <2>3, <2>4 DEF Still
  <1>9. (\/ \E i \in DOMAIN cache : Expire(i)
         \/ \E p \in Proxies : RecoveryTimeout(p)
         \/ UNCHANGED vars) => Still
    <2>1. call' = call /\ slots' = slots => Still
      BY DEF Still
    <2>2. QED
      BY <2>1 DEF Expire, RecoveryTimeout, vars
  <1>10. QED
    BY <1>1, <1>3, <1>4, <1>5, <1>6, <1>7, <1>8, <1>9 DEF Next, Cancelled, CallStep

LEMMA StepLimiter == CallTypes /\ LeadInv /\ LimiterExact /\ [Next]_vars => LimiterExact'
  <1> SUFFICES ASSUME CallTypes, LeadInv, LimiterExact, [Next]_vars, MaxInFlight > 0
               PROVE  slots' = Cardinality(Holding') /\ slots' <= MaxInFlight
    BY DEF LimiterExact
  <1>1. IsFiniteSet(Holding) /\ Cardinality(Holding) \in Nat /\ MaxInFlight \in Nat
        /\ slots = Cardinality(Holding) /\ slots <= MaxInFlight
    BY FS_Subset, FS_CardinalityType, ConstantsAssumption DEF LimiterExact, Holding
  <1>2. ASSUME NEW c \in Calls, Acquire(c)
        PROVE  slots' = Cardinality(Holding') /\ slots' <= MaxInFlight
    <2>1. c \notin Holding /\ Holding' = Holding \cup {c}
      BY <1>2 DEF Acquire, Goto, Holding, CallTypes, Call
    <2>2. Cardinality(Holding') = Cardinality(Holding) + 1
      BY <1>1, <2>1, FS_AddElement
    <2>3. QED
      BY <1>1, <1>2, <2>2 DEF Acquire
  <1>3. ASSUME NEW c \in Calls, Release(c)
        PROVE  slots' = Cardinality(Holding') /\ slots' <= MaxInFlight
    <2>1. c \in Holding /\ Holding' = Holding \ {c}
      BY <1>3 DEF Release, Goto, Holding, CallTypes, Call
    <2>2. Cardinality(Holding') = Cardinality(Holding) - 1
      BY <1>1, <2>1, FS_RemoveElement
    <2>3. QED
      BY <1>1, <1>3, <2>2 DEF Release
  <1>4. QED
    BY <1>1, <1>2, <1>3, OthersHoldStill

(* The limiter holds exactly the tokens of the calls between acquire and   *)
(* its return, whichever way each of them ends, and never more than it has *)
(* room for (inFlightLimiter.acquire, callDownstreamTool).                 *)
THEOREM TokensExact == Spec => []SlotsExact
  <1>1. Init => LimiterExact
    <2> SUFFICES ASSUME Init PROVE LimiterExact
      OBVIOUS
    <2>1. Holding = {}
      BY DEF Init, Holding, IdleCall
    <2>2. QED
      BY <2>1, FS_EmptySet, ConstantsAssumption DEF Init, LimiterExact
  <1>2. LimiterExact => SlotsExact
    BY DEF LimiterExact, SlotsExact, Holding
  <1>3. QED
    BY <1>1, <1>2, StepLimiter, LeadInvariant, CallTypesInvariant, PTL DEF Spec

(* Without a limiter no token is ever taken.                               *)
Unlimited == MaxInFlight = 0 => slots = 0

LEMMA StepUnlimited == CallTypes /\ LeadInv /\ Unlimited /\ [Next]_vars => Unlimited'
  <1> SUFFICES ASSUME CallTypes, LeadInv, [Next]_vars, MaxInFlight = 0, slots = 0
               PROVE  slots' = 0
    BY DEF Unlimited
  <1>1. ASSUME NEW c \in Calls, Acquire(c) \/ Release(c) PROVE slots' = 0
    BY <1>1 DEF Acquire, Release
  <1>2. QED
    BY <1>1, OthersHoldStill

(* The breakers, the limiter, the calls and the table of calls under way   *)
(* keep their types; there are never more tokens than calls.               *)
Tables ==
  /\ breaker \in [Proxies -> Breaker]
  /\ slots \in 0 .. Cardinality(Calls)
  /\ call \in [Calls -> Call]
  /\ inflight \in [Keys -> Calls \cup {None}]

THEOREM TablesTyped == Spec => []Tables
  <1>1. CallTypes /\ LimiterExact /\ Unlimited => Tables
    <2>1. /\ Cardinality(Holding) <= Cardinality(Calls)
          /\ Cardinality(Holding) \in Nat /\ Cardinality(Calls) \in Nat
      BY FS_Subset, FS_CardinalityType, ConstantsAssumption DEF Holding
    <2>2. QED
      BY <2>1, ConstantsAssumption DEF CallTypes, LimiterExact, Unlimited, Tables
  <1>2. Init => LimiterExact /\ Unlimited
    <2> SUFFICES ASSUME Init PROVE LimiterExact /\ Unlimited
      OBVIOUS
    <2>1. Holding = {}
      BY DEF Init, Holding, IdleCall
    <2>2. QED
      BY <2>1, FS_EmptySet, ConstantsAssumption DEF Init, LimiterExact, Unlimited
  <1>3. QED
    BY <1>1, <1>2, StepLimiter, StepUnlimited, LeadInvariant, CallTypesInvariant, PTL DEF Spec
=============================================================================
