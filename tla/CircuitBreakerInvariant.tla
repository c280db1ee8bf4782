----------------------- MODULE CircuitBreakerInvariant -----------------------
(***************************************************************************)
(* The breaker's invariants for any number of requests, any pool, any      *)
(* threshold and any probe budget.                                         *)
(*                                                                         *)
(* ProbeSlotsCounted is inductive only together with ProbesLive: a request *)
(* in the history variable probes is in flight and its backend is HalfOpen, *)
(* so that a breaker that becomes HalfOpen has no probes left over from an *)
(* earlier period.  OpenForResetTimeout rests on RipeElapsed: the stale    *)
(* `now` of a routing call never makes a later transitioned_at look old.   *)
(***************************************************************************)
EXTENDS CircuitBreaker, FiniteSetTheorems, TLAPS

\* A probe of the current period is in flight.
ProbesLive ==
    \A r \in probes : /\ pc[r] \in {"sent", "outcome", "lockBreakers", "record"}
                      /\ tag[chosen[r]] = "HalfOpen"

\* A routing call whose `now` is late enough is about to look at that backend,
\* whose reset_timeout has elapsed if it is still Open.
RipeElapsed ==
    \A r \in ripe : /\ pc[r] \in {"lockTransitioned", "transition"}
                    /\ tag[at[r]] = "Open" => transitionedAt[at[r]] = "elapsed"

IInv == TypeOK /\ BreakerWellFormed /\ ProbeSlotsCounted /\ ProbesLive /\ RipeElapsed

-----------------------------------------------------------------------------
\* The initial state of CircuitBreakerArbiter::new satisfies the invariant.
LEMMA InitIInv == Init => IInv
<1> SUFFICES ASSUME Init PROVE IInv
    OBVIOUS
<1>1. TypeOK
    BY BreakerAssumption DEF BreakerAssumption, Init, TypeOK, Backends, NoSignals, Status
<1>2. BreakerWellFormed /\ ProbesLive /\ RipeElapsed
    BY DEF Init, BreakerWellFormed, ProbesLive, RipeElapsed
<1>3. ProbeSlotsCounted
  <2> SUFFICES ASSUME NEW b \in Backends
               PROVE Cardinality(ProbesOf(b)) <= inflight[b] /\ inflight[b] = 0
      BY DEF ProbeSlotsCounted
  <2>1. ProbesOf(b) = {}
      BY DEF Init, ProbesOf
  <2> QED
      BY <2>1, FS_EmptySet DEF Init
<1> QED
    BY <1>1, <1>2, <1>3 DEF IInv

\* The loop of route over the pool stays in the pool.
LEMMA PoolOrder == 1 \in Backends /\ \A b \in Backends : b < NBackends => b + 1 \in Backends
    BY BreakerAssumption DEF BreakerAssumption, Backends

\* Every step keeps the types and the ownership of the two mutexes.
LEMMA TypeStep == TypeOK /\ [Next]_vars => TypeOK'
<1> SUFFICES ASSUME TypeOK, [Next]_vars PROVE TypeOK'
    OBVIOUS
<1> USE BreakerAssumption DEF BreakerAssumption, TypeOK
<1>1. ASSUME UNCHANGED vars PROVE TypeOK'
    BY <1>1 DEF vars, lockVars, breakerVars, requestVars
<1>2. ASSUME NEW b \in Backends, ResetTimeoutElapses(b) PROVE TypeOK'
    BY <1>2 DEF ResetTimeoutElapses, lockVars, requestVars
<1>3. ASSUME NEW r \in Requests PROVE Arrive(r) => TypeOK'
    BY DEF Arrive, lockVars, breakerVars
<1>4. ASSUME NEW r \in Requests PROVE EnsureBackend(r) => TypeOK'
    BY DEF EnsureBackend, lockVars, breakerVars
<1>5. ASSUME NEW r \in Requests PROVE LockTransitioned(r) => TypeOK'
    BY DEF LockTransitioned, breakerVars
<1>6. ASSUME NEW r \in Requests, MaybeTransition(r) PROVE TypeOK'
  <2>1. at' \in [Requests -> Backends]
      BY <1>6, PoolOrder DEF MaybeTransition
  <2>2. /\ tag' \in [Backends -> {"Closed", "Open", "HalfOpen"}]
        /\ failures' \in [Backends -> Nat]
        /\ inflight' \in [Backends -> Nat]
        /\ transitionedAt' \in [Backends -> {"none", "recent", "elapsed"}]
    <3>1. CASE ProbeTime(r, at[r])
      <4>1. /\ tag' = [tag EXCEPT ![at[r]] = "HalfOpen"]
            /\ failures' = [failures EXCEPT ![at[r]] = 0]
            /\ inflight' = [inflight EXCEPT ![at[r]] = 0]
            /\ transitionedAt' = [transitionedAt EXCEPT ![at[r]] = "recent"]
          BY <1>6, <3>1 DEF MaybeTransition
      <4> QED
          BY <4>1
    <3>2. CASE ~ProbeTime(r, at[r])
        BY <1>6, <3>2 DEF MaybeTransition, breakerVars
    <3> QED
        BY <3>1, <3>2
  <2> QED
      BY <1>6, <2>1, <2>2 DEF MaybeTransition
<1>7. ASSUME NEW r \in Requests PROVE BuildSignals(r) => TypeOK'
    BY DEF BuildSignals, Presented, lockVars, breakerVars
<1>8. ASSUME NEW r \in Requests, InnerRoute(r) PROVE TypeOK'
  <2>1. merged' \in [Requests -> [Backends -> {"Closed", "Open", "HalfOpen"}]]
      BY <1>8 DEF InnerRoute, NoSignals
  <2>2. chosen' \in [Requests -> Backends]
      BY <1>8 DEF InnerRoute
  <2>3. \/ pc' = [pc EXCEPT ![r] = "count"]
        \/ pc' = [pc EXCEPT ![r] = "idle"]
      BY <1>8 DEF InnerRoute
  <2>4. pc[r] = "decide" /\ UNCHANGED <<lockVars, breakerVars, at, status, ripe, probes>>
      BY <1>8 DEF InnerRoute
  <2>5. pc' \in [Requests -> {"idle", "ensure", "lockTransitioned", "transition", "build", "decide",
                             "count", "sent", "outcome", "lockBreakers", "record"}]
      BY <2>3
  <2>6. \A q \in Requests : /\ pc'[q] = "record" <=> pc[q] = "record"
                            /\ pc'[q] = "transition" <=> pc[q] = "transition"
      BY <2>3, <2>4
  <2> QED
      BY <2>1, <2>2, <2>4, <2>5, <2>6 DEF lockVars, breakerVars
<1>9. ASSUME NEW r \in Requests PROVE CountProbe(r) => TypeOK'
    BY DEF CountProbe, lockVars
<1>10. ASSUME NEW r \in Requests PROVE Answer(r) => TypeOK'
    BY DEF Answer, lockVars, breakerVars
<1>11. ASSUME NEW r \in Requests PROVE LoseOutcome(r) => TypeOK'
    BY PoolOrder DEF LoseOutcome, lockVars, breakerVars
<1>12. ASSUME NEW r \in Requests PROVE LockBreakers(r) => TypeOK'
    BY DEF LockBreakers, breakerVars
<1>13. ASSUME NEW r \in Requests, RecordOutcome(r) PROVE TypeOK'
  <2> PICK b \in Backends : b = chosen[r]
      OBVIOUS
  <2>0. \A c \in Backends, t \in {"Closed", "Open", "HalfOpen"}, w \in {"none", "recent", "elapsed"} :
            Leave(c, t, w) => /\ tag' \in [Backends -> {"Closed", "Open", "HalfOpen"}]
                              /\ failures' \in [Backends -> Nat]
                              /\ transitionedAt' \in [Backends -> {"none", "recent", "elapsed"}]
      BY DEF Leave
  <2>1. /\ tag' \in [Backends -> {"Closed", "Open", "HalfOpen"}]
        /\ failures' \in [Backends -> Nat]
        /\ inflight' \in [Backends -> Nat]
        /\ transitionedAt' \in [Backends -> {"none", "recent", "elapsed"}]
        /\ ripe' \subseteq Requests /\ probes' \subseteq Requests
    <3>1. CASE tag[b] = "Closed"
        BY <1>13, <2>0, <3>1 DEF RecordOutcome, Trip
    <3>2. CASE tag[b] = "HalfOpen"
      <4>1. /\ inflight' = [inflight EXCEPT ![b] = 0]
            /\ probes' = {p \in probes : chosen[p] # b}
            /\ Trip(b) \/ (Leave(b, "Closed", transitionedAt[b]) /\ ripe' = ripe)
          BY <1>13, <3>2 DEF RecordOutcome
      <4> QED
          BY <2>0, <4>1 DEF Trip
    <3>3. CASE tag[b] = "Open"
        BY <1>13, <3>3 DEF RecordOutcome, breakerVars
    <3> QED
        BY <3>1, <3>2, <3>3
  <2>2. chosen' \in [Requests -> Backends] /\ status' \in [Requests -> Status]
      BY <1>13, PoolOrder DEF RecordOutcome, Status
  <2> QED
      BY <1>13, <2>1, <2>2 DEF RecordOutcome
<1> QED
    BY <1>1, <1>2, <1>3, <1>4, <1>5, <1>6, <1>7, <1>8, <1>9, <1>10, <1>11, <1>12, <1>13
    DEF Next, RouteStep, ResponseStep

-----------------------------------------------------------------------------
\* The states of a request that may be a probe.
InFlight == {"sent", "outcome", "lockBreakers", "record"}

\* The probes of a backend are a finite set.
LEMMA ProbesFinite ==
    ASSUME TypeOK, NEW S \in SUBSET probes
    PROVE IsFiniteSet(S) /\ Cardinality(S) \in Nat
    BY BreakerAssumption, FS_Subset, FS_CardinalityType DEF BreakerAssumption, TypeOK

\* A step that leaves the two maps and the probes alone keeps the invariant.
LEMMA QuietStep ==
    ASSUME IInv, TypeOK', UNCHANGED <<breakerVars, probes>>, RipeElapsed',
           \A p \in probes : chosen'[p] = chosen[p] /\ pc'[p] \in InFlight
    PROVE IInv'
<1>1. \A b \in Backends : ProbesOf(b)' = ProbesOf(b)
    BY DEF ProbesOf
<1>2. BreakerWellFormed'
    BY DEF IInv, BreakerWellFormed, breakerVars
<1>3. ProbeSlotsCounted'
    BY <1>1 DEF IInv, ProbeSlotsCounted, breakerVars
<1>4. ProbesLive'
    BY DEF IInv, ProbesLive, InFlight, breakerVars
<1> QED
    BY <1>2, <1>3, <1>4 DEF IInv

=============================================================================
