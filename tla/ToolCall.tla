------------------------------ MODULE ToolCall ------------------------------
(***************************************************************************)
(* The path of one tools/call through the stdio proxy of a server          *)
(* (src/internal/mcp/proxy.go, callDownstreamTool) and what guards it: the *)
(* circuit breaker of the proxy session (resilience.go), the in-flight     *)
(* limiter of the server, and the sharedToolCoordinator, which caches and  *)
(* coalesces equal calls of all proxy sessions of the server.              *)
(*                                                                         *)
(* One action is one critical section of the breaker or the coordinator,   *)
(* one channel operation of the limiter, or one round trip.  A call is     *)
(* identified with the goroutine of its handler.                           *)
(***************************************************************************)
EXTENDS Integers, FiniteSets, Sequences

CONSTANTS
  Calls,        \* tools/call handler goroutines
  Proxies,      \* proxy sessions of the server
  ProxyOf,      \* the proxy session each call belongs to
  Keys,         \* tool and arguments, of the tools enabled for sharing
  None,
  MaxInFlight,  \* size of the limiter, 0 for no limiter
  MaxEntries,   \* size of the cache, 0 for no bound
  Threshold     \* failure_threshold of the breaker

ASSUME ConstantsAssumption ==
  /\ IsFiniteSet(Calls) /\ ProxyOf \in [Calls -> Proxies]
  /\ None \notin Keys /\ None \notin Calls
  /\ MaxInFlight \in Nat /\ MaxEntries \in Nat
  /\ Threshold \in Nat \ {0}

VARIABLES
  breaker,    \* per proxy session; rested: the recovery timeout has passed
  slots,      \* tokens in the limiter's channel
  call,       \* pc, key, the call it waits for, the answer it is to return
  inflight,   \* per key, the call whose result the others wait for
  cache       \* cached keys by age, with whether they are fresh

vars == <<breaker, slots, call, inflight, cache>>

Breaker == [status: {"closed", "open", "half"}, failures: 0 .. Threshold,
            probeInFly: BOOLEAN, rested: BOOLEAN]
Call == [pc: {"idle", "follow", "joined", "allow", "acquire", "session", "sent",
              "release", "finish"},
         key: Keys \cup {None}, lead: Calls \cup {None}, out: {"none", "ok", "error"}]
IdleCall == [pc |-> "idle", key |-> None, lead |-> None, out |-> "none"]

Init ==
  /\ breaker = [p \in Proxies |-> [status |-> "closed", failures |-> 0,
                                   probeInFly |-> FALSE, rested |-> FALSE]]
  /\ slots = 0
  /\ call = [c \in Calls |-> IdleCall]
  /\ inflight = [k \in Keys |-> None]
  /\ cache = <<>>

Cached(k)   == \E i \in DOMAIN cache : cache[i].key = k
Fresh(k)    == \E i \in DOMAIN cache : cache[i].key = k /\ cache[i].fresh
Uncached(k) == SelectSeq(cache, LAMBDA e : e.key # k)

---------------------------------------------------------------------------
(* The handler and the first critical section of execute.                  *)

(* A tool that is not shared goes straight to callDownstreamTool.          *)
CallTool(c) ==
  /\ call[c].pc = "idle"
  /\ call' = [call EXCEPT ![c] = [IdleCall EXCEPT !.pc = "allow"]]
  /\ UNCHANGED <<breaker, slots, inflight, cache>>

LeadAlways(c, k) ==            \* mutant: the in-flight table is not looked at
  /\ call[c].pc = "idle" /\ ~Fresh(k)
  /\ cache' = Uncached(k)
  /\ inflight' = [inflight EXCEPT ![k] = c]
  /\ call' = [call EXCEPT ![c] = [IdleCall EXCEPT !.pc = "allow", !.key = k]]
  /\ UNCHANGED <<breaker, slots>>

(* No fresh entry and nobody in flight: this call leads.                   *)
Lead(c, k) ==
  /\ call[c].pc = "idle" /\ ~Fresh(k) /\ inflight[k] = None
  /\ cache' = Uncached(k)
  /\ inflight' = [inflight EXCEPT ![k] = c]
  /\ call' = [call EXCEPT ![c] = [IdleCall EXCEPT !.pc = "allow", !.key = k]]
  /\ UNCHANGED <<breaker, slots>>

Follow(c, k) ==
  /\ call[c].pc = "idle" /\ ~Fresh(k) /\ inflight[k] # None
  /\ cache' = Uncached(k)
  /\ call' = [call EXCEPT ![c] = [IdleCall EXCEPT !.pc = "follow", !.key = k,
                                                  !.lead = inflight[k]]]
  /\ UNCHANGED <<breaker, slots, inflight>>

(* A follower returns with the leader's answer, or because its own context *)
(* ended.                                                                  *)
FollowerReturns(c) ==
  /\ call[c].pc = "joined"
  /\ call' = [call EXCEPT ![c] = IdleCall]
  /\ UNCHANGED <<breaker, slots, inflight, cache>>

FollowerCancelled(c) ==
  /\ call[c].pc = "follow"
  /\ call' = [call EXCEPT ![c] = IdleCall]
  /\ UNCHANGED <<breaker, slots, inflight, cache>>

---------------------------------------------------------------------------
(* callDownstreamTool.                                                     *)

Goto(c, pc)    == call' = [call EXCEPT ![c].pc = pc]
Return(c, pc, out) == call' = [call EXCEPT ![c].pc = pc, ![c].out = out]

(* allow(): closed, or open with the recovery timeout passed, or half open *)
(* without a probe.                                                        *)
Admitted(p) ==
  \/ breaker[p].status = "closed"
  \/ breaker[p].status = "open" /\ breaker[p].rested
  \/ breaker[p].status = "half" /\ ~breaker[p].probeInFly

Allow(c) ==
  /\ call[c].pc = "allow" /\ Admitted(ProxyOf[c])
  /\ breaker' = IF breaker[ProxyOf[c]].status = "closed" THEN breaker
                ELSE [breaker EXCEPT ![ProxyOf[c]].status = "half",
                                     ![ProxyOf[c]].probeInFly = TRUE]
  /\ Goto(c, "acquire")
  /\ UNCHANGED <<slots, inflight, cache>>

CircuitOpen(c) ==
  /\ call[c].pc = "allow" /\ ~Admitted(ProxyOf[c])
  /\ Return(c, "finish", "error")
  /\ UNCHANGED <<breaker, slots, inflight, cache>>

Acquire(c) ==
  /\ call[c].pc = "acquire"
  /\ MaxInFlight = 0 \/ slots < MaxInFlight
  /\ slots' = IF MaxInFlight = 0 THEN slots ELSE slots + 1
  /\ Goto(c, "session")
  /\ UNCHANGED <<breaker, inflight, cache>>

(* The context ends in the queue: nothing is recorded with the breaker.    *)
AcquireCancelled(c) ==
  /\ call[c].pc = "acquire" /\ MaxInFlight > 0
  /\ Return(c, "finish", "error")
  /\ UNCHANGED <<breaker, slots, inflight, cache>>

(* getDownstream, and the respawn of a closed downstream.                  *)
Downstream(c) ==
  /\ call[c].pc = "session"
  /\ Goto(c, "sent")
  /\ UNCHANGED <<breaker, slots, inflight, cache>>

NoDownstreamKeepsSlot(c) ==    \* mutant: this return misses the release
  /\ call[c].pc = "session"
  /\ Return(c, "finish", "error")
  /\ UNCHANGED <<breaker, slots, inflight, cache>>

(* No downstream: nothing is recorded with the breaker here either.        *)
NoDownstream(c) ==
  /\ call[c].pc = "session"
  /\ Return(c, "release", "error")
  /\ UNCHANGED <<breaker, slots, inflight, cache>>

(* recordSuccess, by whichever call, closes the circuit.                   *)
Answered(c) ==
  /\ call[c].pc = "sent"
  /\ breaker' = [breaker EXCEPT ![ProxyOf[c]] =
       [status |-> "closed", failures |-> 0, probeInFly |-> FALSE, rested |-> FALSE]]
  /\ Return(c, "release", "ok")
  /\ UNCHANGED <<slots, inflight, cache>>

FailureKeepsProbe(b) ==        \* mutant: a stale failure leaves the probe flag
  LET n == IF b.status = "half" \/ b.failures = Threshold
           THEN Threshold ELSE b.failures + 1
  IN [b EXCEPT !.failures = n,
               !.status   = IF n = Threshold THEN "open" ELSE b.status,
               !.rested   = IF n = Threshold THEN FALSE ELSE b.rested]

(* recordFailure.  failures is only compared with the threshold, so it     *)
(* saturates there.                                                        *)
RecordFailure(b) ==
  LET n == IF b.status = "half" \/ b.failures = Threshold
           THEN Threshold ELSE b.failures + 1
  IN [b EXCEPT !.failures = n, !.probeInFly = FALSE,
               !.status   = IF n = Threshold THEN "open" ELSE b.status,
               !.rested   = IF n = Threshold THEN FALSE ELSE b.rested]

(* A timeout, a lost downstream or a configured pattern is recorded; any   *)
(* other error, a cancelled context among them, is not.                    *)
CallFails(c, retryable) ==
  /\ call[c].pc = "sent"
  /\ breaker' = IF retryable
                THEN [breaker EXCEPT ![ProxyOf[c]] = RecordFailure(breaker[ProxyOf[c]])]
                ELSE breaker
  /\ Return(c, "release", "error")
  /\ UNCHANGED <<slots, inflight, cache>>

Release(c) ==
  /\ call[c].pc = "release"
  /\ slots' = IF MaxInFlight = 0 THEN slots ELSE slots - 1
  /\ Goto(c, "finish")
  /\ UNCHANGED <<breaker, inflight, cache>>

---------------------------------------------------------------------------
(* The last critical section of execute: the entry goes, a result is       *)
(* cached and the oldest entry trimmed, and every follower is woken.       *)
Trimmed(s) == IF MaxEntries > 0 /\ Len(s) > MaxEntries THEN Tail(s) ELSE s

Joined(c) ==
  [d \in Calls |-> IF d = c THEN IdleCall
                   ELSE IF call[d].lead = c
                        THEN [call[d] EXCEPT !.pc = "joined", !.lead = None,
                                             !.out = call[c].out]
                   ELSE call[d]]

FinishSilently(c) ==           \* mutant: call.done is not closed
  /\ call[c].pc = "finish"
  /\ call' = [call EXCEPT ![c] = IdleCall]
  /\ inflight' = [k \in Keys |-> IF k = call[c].key THEN None ELSE inflight[k]]
  /\ UNCHANGED <<breaker, slots, cache>>

Finish(c) ==
  /\ call[c].pc = "finish"
  /\ call' = Joined(c)
  /\ inflight' = [k \in Keys |-> IF k = call[c].key THEN None ELSE inflight[k]]
  /\ cache' = IF call[c].key # None /\ call[c].out = "ok"
              THEN Trimmed(Append(cache, [key |-> call[c].key, fresh |-> TRUE]))
              ELSE cache
  /\ UNCHANGED <<breaker, slots>>

---------------------------------------------------------------------------
(* The passing of time.                                                    *)
Expire(i) ==
  /\ i \in DOMAIN cache /\ cache[i].fresh
  /\ cache' = [cache EXCEPT ![i].fresh = FALSE]
  /\ UNCHANGED <<breaker, slots, call, inflight>>

RecoveryTimeout(p) ==
  /\ breaker[p].status = "open" /\ ~breaker[p].rested
  /\ breaker' = [breaker EXCEPT ![p].rested = TRUE]
  /\ UNCHANGED <<slots, call, inflight, cache>>

---------------------------------------------------------------------------
Arrive(c) == CallTool(c) \/ \E k \in Keys : Lead(c, k) \/ Follow(c, k)
Cancelled(c) == FollowerCancelled(c) \/ AcquireCancelled(c)
CallStep(c) ==
  \/ FollowerReturns(c) \/ Allow(c) \/ CircuitOpen(c)
  \/ Downstream(c) \/ NoDownstream(c) \/ Answered(c)
  \/ \E retryable \in BOOLEAN : CallFails(c, retryable)
  \/ Release(c) \/ Finish(c)

Next ==
  \/ \E c \in Calls : Arrive(c) \/ Cancelled(c) \/ CallStep(c) \/ Acquire(c)
  \/ \E i \in DOMAIN cache : Expire(i)
  \/ \E p \in Proxies : RecoveryTimeout(p)

Spec == Init /\ [][Next]_vars

(* Handlers run, a dispatched call ends (request_timeout), and the channel *)
(* of the limiter serves its senders in order.  Nobody has to cancel.      *)
FairSpec ==
  /\ Spec
  /\ \A c \in Calls : WF_vars(CallStep(c)) /\ SF_vars(Acquire(c))

---------------------------------------------------------------------------
TypeOK ==
  /\ breaker \in [Proxies -> Breaker]
  /\ slots \in 0 .. Cardinality(Calls)
  /\ call \in [Calls -> Call]
  /\ inflight \in [Keys -> Calls \cup {None}]
  /\ cache \in Seq([key: Keys, fresh: BOOLEAN])

(* The breaker counts and its state agree whatever order late results of   *)
(* calls admitted in an earlier state arrive in: closed is below the       *)
(* threshold, open has reached it, and only a half-open circuit has a      *)
(* probe.                                                                  *)
BreakerConsistent ==
  \A p \in Proxies :
    /\ breaker[p].status = "closed" => breaker[p].failures < Threshold
    /\ breaker[p].status # "closed" => breaker[p].failures = Threshold
    /\ (breaker[p].status = "half") <=> breaker[p].probeInFly

(* The limiter holds one token per call between acquire and its return,    *)
(* on every error path, so no more than MaxInFlight calls run.             *)
SlotsExact ==
  MaxInFlight > 0 =>
    /\ slots = Cardinality({c \in Calls : call[c].pc \in {"session", "sent", "release"}})
    /\ slots <= MaxInFlight

(* Equal shared calls run once: for each key at most one call is on its    *)
(* way to the downstream, it is the one in the table, and whoever waits    *)
(* waits for a call that will still finish.                                *)
Leading(c) == call[c].key # None /\ call[c].pc \notin {"idle", "follow", "joined"}
OneCallPerKey ==
  /\ \A c, d \in Calls : Leading(c) /\ Leading(d) /\ call[c].key = call[d].key => c = d
  /\ \A k \in Keys : inflight[k] # None => Leading(inflight[k]) /\ call[inflight[k]].key = k
  /\ \A c \in Calls : call[c].pc = "follow" => Leading(call[c].lead)
                                               /\ call[call[c].lead].key = call[c].key

(* Every tool call returns: no queue of the limiter and no coalesced wait  *)
(* keeps one for ever.                                                     *)
CallsReturn == \A c \in Calls : (call[c].pc # "idle") ~> (call[c].pc = "idle")

(* What the breaker's test says of it: after the recovery timeout the      *)
(* circuit allows a half-open probe.  Stated for a proxy session with no   *)
(* call on its way: nothing is left that could still report a result.      *)
ProbeAllowedAfterRecovery ==
  \A p \in Proxies :
    /\ breaker[p].status = "half" \/ breaker[p].rested
    /\ \A c \in Calls : ProxyOf[c] = p => call[c].pc \in {"idle", "allow"}
    => Admitted(p)
=============================================================================
