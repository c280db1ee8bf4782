------------------------ MODULE CircuitBreakerProofs ------------------------
(***************************************************************************)
(* The invariant of CircuitBreakerInvariant is preserved by the steps that *)
(* change the two maps, and the theorems that follow.                      *)
(***************************************************************************)
EXTENDS CircuitBreakerInvariant

\* maybe_transition_open_to_halfopen starts a HalfOpen period with no probes.
LEMMA MaybeTransitionStep ==
    ASSUME IInv, TypeOK', NEW r \in Requests, MaybeTransition(r)
    PROVE IInv'
<1> USE DEF IInv
<1>1. CASE ~ProbeTime(r, at[r])
  <2>1. UNCHANGED <<breakerVars, probes, chosen>>
      BY <1>1 DEF MaybeTransition
  <2>2. RipeElapsed'
      BY <2>1 DEF MaybeTransition, RipeElapsed, TypeOK, breakerVars
  <2>3. \A p \in probes : chosen'[p] = chosen[p] /\ pc'[p] \in InFlight
      BY <2>1 DEF MaybeTransition, ProbesLive, TypeOK, InFlight
  <2> QED
      BY <2>1, <2>2, <2>3, QuietStep
<1>2. CASE ProbeTime(r, at[r])
  <2> PICK b \in Backends : b = at[r]
      BY DEF TypeOK
  <2>1. /\ tag[b] = "Open"
        /\ tag' = [tag EXCEPT ![b] = "HalfOpen"]
        /\ failures' = [failures EXCEPT ![b] = 0]
        /\ inflight' = [inflight EXCEPT ![b] = 0]
        /\ transitionedAt' = [transitionedAt EXCEPT ![b] = "recent"]
      BY <1>2 DEF MaybeTransition, ProbeTime
  <2>2. /\ UNCHANGED <<chosen, probes>>
        /\ ripe' = ripe \ {r}
        /\ \A q \in Requests \ {r} : pc'[q] = pc[q] /\ at'[q] = at[q]
        /\ pc[r] = "transition"
      BY DEF MaybeTransition, TypeOK
  <2>3. BreakerWellFormed'
      BY <2>1 DEF BreakerWellFormed, TypeOK
  <2>4. ProbesOf(b) = {}
      BY <2>1 DEF ProbesOf, ProbesLive
  <2>5. ProbeSlotsCounted'
    <3> SUFFICES ASSUME NEW c \in Backends
                 PROVE /\ Cardinality(ProbesOf(c)') <= inflight'[c]
                       /\ inflight'[c] > 0 => tag'[c] = "HalfOpen"
        BY DEF ProbeSlotsCounted
    <3>1. ProbesOf(c)' = ProbesOf(c)
        BY <2>2 DEF ProbesOf
    <3>2. CASE c = b
      <4>1. ProbesOf(c)' = {} /\ Cardinality({}) = 0
          BY <2>4, <3>1, <3>2, FS_EmptySet
      <4>2. inflight'[c] = 0
          BY <2>1, <3>2 DEF TypeOK
      <4> QED
          BY <4>1, <4>2
    <3>3. CASE c # b
        BY <2>1, <3>1, <3>3 DEF TypeOK, ProbeSlotsCounted
    <3> QED
        BY <3>2, <3>3
  <2>6. ProbesLive'
      BY <2>1, <2>2, Zenon DEF ProbesLive, TypeOK
  <2>7. RipeElapsed'
      BY <2>1, <2>2 DEF RipeElapsed, TypeOK
  <2> QED
      BY <2>3, <2>5, <2>6, <2>7
<1> QED
    BY <1>1, <1>2

\* route counts the request it sends as a probe.
LEMMA CountProbeStep ==
    ASSUME IInv, TypeOK', NEW r \in Requests, CountProbe(r)
    PROVE IInv'
<1> USE DEF IInv
<1>1. /\ pc[r] = "count" /\ pc' = [pc EXCEPT ![r] = "sent"]
      /\ UNCHANGED <<tag, failures, transitionedAt, at, chosen, ripe>>
    BY DEF CountProbe
<1>2. RipeElapsed'
    BY <1>1 DEF RipeElapsed, TypeOK
<1>3. r \notin probes
    BY <1>1 DEF ProbesLive
<1> PICK b \in Backends : b = chosen[r]
    BY DEF TypeOK
<1>4. CASE tag[b] # "HalfOpen"
  <2>1. UNCHANGED <<breakerVars, probes>>
      BY <1>1, <1>4 DEF CountProbe, breakerVars
  <2>2. \A p \in probes : chosen'[p] = chosen[p] /\ pc'[p] \in InFlight
      BY <1>1, <1>3 DEF ProbesLive, TypeOK, InFlight
  <2> QED
      BY <1>2, <2>1, <2>2, QuietStep
<1>5. CASE tag[b] = "HalfOpen"
  <2>1. inflight' = [inflight EXCEPT ![b] = @ + 1] /\ probes' = probes \cup {r}
      BY <1>5 DEF CountProbe
  <2>2. BreakerWellFormed'
      BY <1>1 DEF BreakerWellFormed
  <2>3. ProbesLive'
      BY <1>1, <1>5, <2>1 DEF ProbesLive, TypeOK
  <2>4. ProbeSlotsCounted'
    <3> SUFFICES ASSUME NEW c \in Backends
                 PROVE /\ Cardinality(ProbesOf(c)') <= inflight'[c]
                       /\ inflight'[c] > 0 => tag'[c] = "HalfOpen"
        BY DEF ProbeSlotsCounted
    <3>1. CASE c = b
      <4>1. ProbesOf(c)' = ProbesOf(c) \cup {r} /\ r \notin ProbesOf(c)
          BY <1>1, <1>3, <2>1, <3>1 DEF ProbesOf
      <4>2. IsFiniteSet(ProbesOf(c)) /\ Cardinality(ProbesOf(c)) \in Nat
          BY ProbesFinite DEF ProbesOf
      <4>3. Cardinality(ProbesOf(c)') = Cardinality(ProbesOf(c)) + 1
          BY <4>1, <4>2, FS_AddElement, Zenon
      <4> QED
          BY <1>1, <1>5, <2>1, <3>1, <4>2, <4>3 DEF ProbeSlotsCounted, TypeOK
    <3>2. CASE c # b
      <4>1. ProbesOf(c)' = ProbesOf(c)
          BY <1>1, <2>1, <3>2 DEF ProbesOf
      <4> QED
          BY <1>1, <2>1, <3>2, <4>1 DEF ProbeSlotsCounted, TypeOK
    <3> QED
        BY <3>1, <3>2
  <2> QED
      BY <1>2, <2>2, <2>3, <2>4
<1> QED
    BY <1>4, <1>5

\* The handler returns without on_response: a probe stays counted.
LEMMA LoseOutcomeStep ==
    ASSUME IInv, TypeOK', NEW r \in Requests, LoseOutcome(r)
    PROVE IInv'
<1> USE DEF IInv
<1>1. /\ UNCHANGED <<breakerVars, at, ripe>>
      /\ pc[r] = "sent" /\ pc' = [pc EXCEPT ![r] = "idle"]
      /\ chosen' = [chosen EXCEPT ![r] = 1] /\ probes' = probes \ {r}
    BY DEF LoseOutcome
<1>2. BreakerWellFormed'
    BY <1>1 DEF BreakerWellFormed, breakerVars
<1>3. ProbesLive' /\ RipeElapsed'
    BY <1>1 DEF ProbesLive, RipeElapsed, TypeOK, breakerVars
<1>4. ProbeSlotsCounted'
  <2> SUFFICES ASSUME NEW c \in Backends
               PROVE /\ Cardinality(ProbesOf(c)') <= inflight[c]
                     /\ inflight[c] > 0 => tag[c] = "HalfOpen"
      BY <1>1 DEF ProbeSlotsCounted, breakerVars
  <2>1. ProbesOf(c)' \subseteq ProbesOf(c)
      BY <1>1 DEF ProbesOf, TypeOK
  <2>2. IsFiniteSet(ProbesOf(c)) /\ Cardinality(ProbesOf(c)) \in Nat
      BY ProbesFinite DEF ProbesOf
  <2>3. Cardinality(ProbesOf(c)') <= Cardinality(ProbesOf(c)) /\ Cardinality(ProbesOf(c)') \in Nat
      BY <2>1, <2>2, FS_Subset, FS_CardinalityType
  <2> QED
      BY <2>2, <2>3 DEF ProbeSlotsCounted, TypeOK
<1> QED
    BY <1>2, <1>3, <1>4

\* record_outcome: a breaker leaves HalfOpen with all its probes, and a breaker
\* that opens has a fresh transitioned_at.
LEMMA RecordOutcomeStep ==
    ASSUME IInv, TypeOK', NEW r \in Requests, RecordOutcome(r)
    PROVE IInv'
<1> USE DEF IInv
<1> PICK b \in Backends : b = chosen[r]
    BY DEF TypeOK
<1>1. /\ pc[r] = "record" /\ pc' = [pc EXCEPT ![r] = "idle"] /\ at' = at
      /\ chosen' = [chosen EXCEPT ![r] = 1]
    BY DEF RecordOutcome
<1>2. /\ r \notin ripe
      /\ r \in probes => tag[b] = "HalfOpen"
    BY <1>1 DEF RipeElapsed, ProbesLive
\* The three ways in which the entry of the backend changes.
<1>3. \/ /\ tag[b] # "HalfOpen" /\ probes' = probes /\ inflight' = inflight /\ ripe' = ripe
         /\ UNCHANGED <<tag, transitionedAt>>
         /\ \/ failures' = failures
            \/ failures' = [failures EXCEPT ![b] = 0]
            \/ /\ failures[b] + 1 < FailureThreshold /\ tag[b] = "Closed"
               /\ failures' = [failures EXCEPT ![b] = @ + 1]
      \/ /\ tag[b] = "Closed" /\ probes' = probes /\ inflight' = inflight
         /\ Trip(b)
      \/ /\ tag[b] = "HalfOpen" /\ probes' = {p \in probes : chosen[p] # b}
         /\ inflight' = [inflight EXCEPT ![b] = 0]
         /\ Trip(b) \/ (Leave(b, "Closed", transitionedAt[b]) /\ ripe' = ripe)
  <2>1. CASE tag[b] = "Closed"
      BY <2>1, BreakerAssumption DEF RecordOutcome, TypeOK, BreakerAssumption
  <2>2. CASE tag[b] = "HalfOpen"
      BY <2>2 DEF RecordOutcome
  <2>3. CASE tag[b] = "Open"
      BY <2>3 DEF RecordOutcome, breakerVars
  <2> QED
      BY <2>1, <2>2, <2>3 DEF TypeOK
<1>4. BreakerWellFormed'
  <2>1. CASE Trip(b)
      BY <2>1 DEF Trip, Leave, BreakerWellFormed, TypeOK
  <2>2. CASE Leave(b, "Closed", transitionedAt[b])
      BY <2>2 DEF Leave, BreakerWellFormed, TypeOK
  <2>3. CASE ~Trip(b) /\ ~Leave(b, "Closed", transitionedAt[b])
    <3>1. UNCHANGED <<tag, transitionedAt>>
        BY <1>3, <2>3, Zenon
    <3>2. \/ failures' = failures
          \/ failures' = [failures EXCEPT ![b] = 0]
          \/ /\ failures[b] + 1 < FailureThreshold /\ tag[b] = "Closed"
             /\ failures' = [failures EXCEPT ![b] = @ + 1]
        BY <1>3, <2>3, Zenon
    <3> QED
        BY <3>1, <3>2 DEF BreakerWellFormed, TypeOK
  <2> QED
      BY <2>1, <2>2, <2>3, Zenon
<1>5. ProbesLive'
  <2>1. \A c \in Backends \ {b} : tag'[c] = tag[c]
      BY <1>3 DEF Trip, Leave, TypeOK
  <2>2. \A p \in probes' : p \in probes /\ p # r /\ (chosen[p] = b => tag'[b] = tag[b])
      BY <1>1, <1>2, <1>3 DEF ProbesLive, TypeOK
  <2> QED
      BY <1>1, <2>1, <2>2 DEF ProbesLive, TypeOK
<1>6. RipeElapsed'
  <2>1. CASE Trip(b)
      BY <1>1, <1>2, <2>1 DEF RipeElapsed, Trip, Leave, TypeOK
  <2>2. CASE Leave(b, "Closed", transitionedAt[b]) /\ ripe' = ripe
      BY <1>1, <1>2, <2>2 DEF RipeElapsed, Leave, TypeOK
  <2>3. CASE UNCHANGED <<tag, transitionedAt, ripe>>
      BY <1>1, <1>2, <2>3 DEF RipeElapsed, TypeOK
  <2> QED
      BY <1>3, <2>1, <2>2, <2>3, Zenon
<1>7. ProbeSlotsCounted'
  <2> SUFFICES ASSUME NEW c \in Backends
               PROVE /\ Cardinality(ProbesOf(c)') <= inflight'[c]
                     /\ inflight'[c] > 0 => tag'[c] = "HalfOpen"
      BY DEF ProbeSlotsCounted
  <2>1. CASE tag[b] # "HalfOpen"
    <3>1. ProbesOf(c)' = ProbesOf(c) /\ inflight' = inflight
        BY <1>1, <1>2, <1>3, <2>1 DEF ProbesOf, TypeOK
    <3>2. tag[c] = "HalfOpen" => tag'[c] = "HalfOpen"
        BY <1>3, <2>1 DEF Trip, Leave, TypeOK
    <3> QED
        BY <3>1, <3>2 DEF ProbeSlotsCounted, TypeOK
  <2>2. CASE tag[b] = "HalfOpen" /\ c = b
    <3>1. ProbesOf(c)' = {}
        BY <1>1, <1>3, <2>2 DEF ProbesOf, TypeOK
    <3>2. inflight'[c] = 0
        BY <1>3, <2>2 DEF TypeOK
    <3> QED
        BY <3>1, <3>2, FS_EmptySet
  <2>3. CASE tag[b] = "HalfOpen" /\ c # b
    <3>1. ProbesOf(c)' = ProbesOf(c)
        BY <1>1, <1>3, <2>3 DEF ProbesOf, TypeOK
    <3>2. inflight'[c] = inflight[c] /\ tag'[c] = tag[c]
        BY <1>3, <2>3 DEF Trip, Leave, TypeOK
    <3> QED
        BY <3>1, <3>2 DEF ProbeSlotsCounted
  <2> QED
      BY <2>1, <2>2, <2>3
<1> QED
    BY <1>4, <1>5, <1>6, <1>7

-----------------------------------------------------------------------------
\* Every step of the handlers, and of the clock, keeps the invariant.
LEMMA IInvStep == IInv /\ [Next]_vars => IInv'
<1> SUFFICES ASSUME IInv, [Next]_vars PROVE IInv'
    OBVIOUS
<1>0. TypeOK'
    BY TypeStep DEF IInv
<1>1. ASSUME UNCHANGED vars PROVE IInv'
  <2>1. RipeElapsed' /\ UNCHANGED <<breakerVars, probes>>
      BY <1>1 DEF IInv, RipeElapsed, vars, requestVars, breakerVars
  <2>2. \A p \in probes : chosen'[p] = chosen[p] /\ pc'[p] \in InFlight
      BY <1>1 DEF IInv, ProbesLive, InFlight, vars, requestVars
  <2> QED
      BY <1>0, <2>1, <2>2, QuietStep
<1>2. ASSUME NEW b \in Backends, ResetTimeoutElapses(b) PROVE IInv'
  <2> USE DEF IInv
  <2>1. /\ UNCHANGED <<tag, failures, inflight, requestVars, ripe, probes>>
        /\ transitionedAt' = [transitionedAt EXCEPT ![b] = "elapsed"]
      BY <1>2 DEF ResetTimeoutElapses
  <2>2. BreakerWellFormed' /\ RipeElapsed' /\ ProbesLive'
      BY <2>1 DEF BreakerWellFormed, RipeElapsed, ProbesLive, requestVars, TypeOK
  <2>3. \A c \in Backends : ProbesOf(c)' = ProbesOf(c)
      BY <2>1 DEF ProbesOf, requestVars
  <2>4. ProbeSlotsCounted'
      BY <2>1, <2>3 DEF ProbeSlotsCounted
  <2> QED
      BY <1>0, <2>2, <2>4
<1>3. ASSUME NEW r \in Requests,
             \/ Arrive(r) \/ EnsureBackend(r) \/ LockTransitioned(r) \/ BuildSignals(r)
             \/ InnerRoute(r) \/ Answer(r) \/ LockBreakers(r)
      PROVE IInv'
  <2> USE DEF IInv
  <2>1. /\ UNCHANGED <<breakerVars, probes, at>>
        /\ \A q \in Requests \ {r} : pc'[q] = pc[q] /\ chosen'[q] = chosen[q]
      BY <1>3 DEF Arrive, EnsureBackend, LockTransitioned, BuildSignals, InnerRoute, Answer,
                  LockBreakers, TypeOK
  <2>2. r \in probes => pc'[r] \in InFlight /\ chosen'[r] = chosen[r]
      BY <1>3 DEF Arrive, EnsureBackend, LockTransitioned, BuildSignals, InnerRoute, Answer,
                  LockBreakers, TypeOK, ProbesLive, InFlight
  <2>3. RipeElapsed'
    <3>1. CASE EnsureBackend(r)
        BY <2>1, <3>1 DEF EnsureBackend, RipeElapsed, TypeOK, breakerVars
    <3>2. CASE ~EnsureBackend(r)
      <4>1. ripe' = ripe
          BY <1>3, <3>2 DEF Arrive, LockTransitioned, BuildSignals, InnerRoute, Answer, LockBreakers
      <4>2. r \in ripe => pc'[r] \in {"lockTransitioned", "transition"}
          BY <1>3, <3>2 DEF Arrive, LockTransitioned, BuildSignals, InnerRoute, Answer,
                            LockBreakers, TypeOK, RipeElapsed
      <4> QED
          BY <2>1, <4>1, <4>2 DEF RipeElapsed, TypeOK, breakerVars
    <3> QED
        BY <3>1, <3>2
  <2> QED
      BY <1>0, <2>1, <2>2, <2>3, QuietStep DEF ProbesLive, InFlight, TypeOK
<1> QED
    BY <1>0, <1>1, <1>2, <1>3, MaybeTransitionStep, CountProbeStep, LoseOutcomeStep,
       RecordOutcomeStep
    DEF Next, RouteStep, ResponseStep

\* The inductive invariant holds in every state of every execution.
THEOREM BreakerInvariant == Spec => []IInv
<1>1. Init => IInv
    BY InitIInv
<1>2. IInv /\ [Next]_vars => IInv'
    BY IInvStep
<1> QED
    BY <1>1, <1>2, PTL DEF Spec

\* The breaker's and the requests' state is well typed, and a mutex is held only
\* by a request inside its critical section.
THEOREM BreakerTypeCorrect == Spec => []TypeOK
    BY BreakerInvariant, PTL DEF IInv

\* breakers and transitioned_at agree: an Open breaker can be timed out.
THEOREM BreakerMapsAgree == Spec => []BreakerWellFormed
    BY BreakerInvariant, PTL DEF IInv

\* half_open_inflight never counts fewer probes than are in flight.
THEOREM BreakerProbesCounted == Spec => []ProbeSlotsCounted
    BY BreakerInvariant, PTL DEF IInv

\* A breaker leaves Open only through maybe_transition_open_to_halfopen, after
\* reset_timeout.
THEOREM BreakerOpenForResetTimeout == Spec => OpenForResetTimeout
<1> DEFINE A == \A b \in Backends : tag[b] = "Open" /\ tag'[b] # "Open"
                    => tag'[b] = "HalfOpen" /\ transitionedAt[b] = "elapsed"
<1>1. IInv /\ [Next]_vars => [A]_vars
  <2> SUFFICES ASSUME IInv, Next, NEW b \in Backends, tag[b] = "Open", tag'[b] # "Open"
               PROVE tag'[b] = "HalfOpen" /\ transitionedAt[b] = "elapsed"
      OBVIOUS
  <2>1. PICK r \in Requests : MaybeTransition(r) \/ RecordOutcome(r)
      BY DEF Next, RouteStep, ResponseStep, ResetTimeoutElapses, Arrive, EnsureBackend,
             LockTransitioned, BuildSignals, InnerRoute, CountProbe, Answer, LoseOutcome,
             LockBreakers, breakerVars
  <2>2. CASE MaybeTransition(r)
    <3>1. ProbeTime(r, at[r]) /\ at[r] = b
        BY <2>2 DEF MaybeTransition, IInv, TypeOK, breakerVars
    <3>2. tag' = [tag EXCEPT ![b] = "HalfOpen"]
        BY <2>2, <3>1 DEF MaybeTransition
    <3> QED
        BY <3>1, <3>2 DEF ProbeTime, IInv, RipeElapsed, TypeOK
  <2>3. CASE RecordOutcome(r)
    <3>1. tag[chosen[r]] = "Open" => tag' = tag
        BY <2>3 DEF RecordOutcome, breakerVars
    <3>2. tag[chosen[r]] # "Open" => tag'[b] = tag[b]
        BY <2>3 DEF RecordOutcome, Trip, Leave, IInv, TypeOK
    <3> QED
        BY <3>1, <3>2
  <2> QED
      BY <2>1, <2>2, <2>3
<1> QED
    BY <1>1, BreakerInvariant, PTL DEF Spec, OpenForResetTimeout

=============================================================================
