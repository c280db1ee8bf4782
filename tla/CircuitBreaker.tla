--------------------------- MODULE CircuitBreaker ---------------------------
(***************************************************************************)
(* CircuitBreakerArbiter (crates/riftgate-router/src/circuit.rs) and the    *)
(* part of the request handler that feeds it outcomes                      *)
(* (crates/riftgate/src/proxy.rs).                                         *)
(*                                                                         *)
(* Requests run concurrently.  Each one calls route(), is in flight to the *)
(* backend it was sent to, and, when the backend answers, on_response().   *)
(* The arbiter keeps its state in two maps under two mutexes, breakers and *)
(* transitioned_at.  A critical section that takes one mutex is one step;  *)
(* one that takes both is two steps, so that the order in which they are   *)
(* taken is visible.                                                       *)
(*                                                                         *)
(* The inner router is any router that does not choose a backend presented *)
(* as Open (WeightedRandomRouter and the routers stacked on it).  Time is  *)
(* whether reset_timeout has elapsed since transitioned_at was set.        *)
(***************************************************************************)
EXTENDS Integers, FiniteSets

CONSTANTS
    Requests,          \* concurrent request handlers
    NBackends,         \* size of the pool, iterated in order 1..NBackends
    FailureThreshold,  \* CircuitBreakerConfig.failure_threshold
    HalfOpenMax,       \* CircuitBreakerConfig.half_open_max
    Statuses,          \* the kinds of answer backends give
    MayLose,           \* TRUE: a request may end without an outcome
    NoOne              \* a mutex nobody holds

Backends == 1..NBackends
\* Kinds of HTTP status: success, client error, request timeout (408), too
\* many requests (429), server error (5xx).
Status == {"2xx", "4xx", "408", "429", "5xx"}

ASSUME BreakerAssumption ==
    /\ NBackends \in Nat \ {0}
    /\ FailureThreshold \in Nat
    /\ HalfOpenMax \in Nat
    /\ Statuses \subseteq Status
    /\ MayLose \in BOOLEAN
    /\ IsFiniteSet(Requests)
    /\ NoOne \notin Requests

VARIABLES
    breakersLock,      \* owner of the breakers mutex
    transitionedLock,  \* owner of the transitioned_at mutex
    tag,               \* per backend: state_tag of BackendBreaker.state
    failures,          \* per backend: consecutive_failures
    inflight,          \* per backend: half_open_inflight
    transitionedAt,    \* per backend: "none", "recent" or "elapsed"
    pc,                \* where each request stands
    at,                \* route: the backend the loop is at
    merged,            \* route: the signals handed to the inner router
    chosen,            \* the backend the request was sent to
    status,            \* the status of the answer
    ripe,              \* route: the loops whose `now` is reset_timeout or more
                       \*   after transitioned_at of the backend they are at
    probes             \* history: requests counted as probes of the current
                       \*   HalfOpen period of their backend

lockVars == <<breakersLock, transitionedLock>>
breakerVars == <<tag, failures, inflight, transitionedAt>>
requestVars == <<pc, at, merged, chosen, status>>
vars == <<lockVars, breakerVars, requestVars, ripe, probes>>

\* The value of a local that is not live.
NoSignals == [b \in Backends |-> "Closed"]

Init ==
    /\ breakersLock = NoOne /\ transitionedLock = NoOne
    /\ tag = [b \in Backends |-> "Closed"]
    /\ failures = [b \in Backends |-> 0]
    /\ inflight = [b \in Backends |-> 0]
    /\ transitionedAt = [b \in Backends |-> "none"]
    /\ pc = [r \in Requests |-> "idle"]
    /\ at = [r \in Requests |-> 1]
    /\ merged = [r \in Requests |-> NoSignals]
    /\ chosen = [r \in Requests |-> 1]
    /\ status = [r \in Requests |-> "2xx"]
    /\ ripe = {}
    /\ probes = {}

\* reset_timeout elapses after the breaker's last transition.
ResetTimeoutElapses(b) ==
    /\ transitionedAt[b] = "recent"
    /\ transitionedAt' = [transitionedAt EXCEPT ![b] = "elapsed"]
    /\ UNCHANGED <<lockVars, tag, failures, inflight, requestVars, ripe, probes>>

-----------------------------------------------------------------------------
(* route()                                                                 *)

Arrive(r) ==
    /\ pc[r] = "idle"
    /\ pc' = [pc EXCEPT ![r] = "ensure"]
    /\ UNCHANGED <<lockVars, breakerVars, at, merged, chosen, status, ripe, probes>>

\* ensure_backend: the entry exists afterwards (a missing entry reads as Closed).
\* In route, `now` is read next, before transitioned_at is locked.
EnsureBackend(r) ==
    /\ breakersLock = NoOne
    /\ \/ /\ pc[r] = "ensure"
          /\ pc' = [pc EXCEPT ![r] = "lockTransitioned"]
          /\ ripe' = IF transitionedAt[at[r]] = "elapsed" THEN ripe \cup {r} ELSE ripe
       \/ /\ pc[r] = "outcome"
          /\ pc' = [pc EXCEPT ![r] = "lockBreakers"]
          /\ ripe' = ripe
    /\ UNCHANGED <<lockVars, breakerVars, at, merged, chosen, status, probes>>

\* maybe_transition_open_to_halfopen takes transitioned_at first ...
LockTransitioned(r) ==
    /\ pc[r] = "lockTransitioned"
    /\ transitionedLock = NoOne
    /\ transitionedLock' = r
    /\ pc' = [pc EXCEPT ![r] = "transition"]
    /\ UNCHANGED <<breakersLock, breakerVars, at, merged, chosen, status, ripe, probes>>

ProbeTimeAnyState(r, b) == r \in ripe
ProbeTimeAtOnce(r, b) == tag[b] = "Open"
ProbeTime(r, b) == tag[b] = "Open" /\ r \in ripe

\* ... and breakers second; both are released at the end.
MaybeTransition(r) ==
    /\ pc[r] = "transition"
    /\ breakersLock = NoOne
    /\ LET b == at[r]
       IN  IF ProbeTime(r, b)
             THEN /\ tag' = [tag EXCEPT ![b] = "HalfOpen"]
                  /\ failures' = [failures EXCEPT ![b] = 0]
                  /\ inflight' = [inflight EXCEPT ![b] = 0]
                  /\ transitionedAt' = [transitionedAt EXCEPT ![b] = "recent"]
             ELSE UNCHANGED breakerVars
    /\ transitionedLock' = NoOne
    /\ pc' = [pc EXCEPT ![r] = IF at[r] < NBackends THEN "ensure" ELSE "build"]
    /\ at' = [at EXCEPT ![r] = IF @ < NBackends THEN @ + 1 ELSE 1]
    /\ ripe' = ripe \ {r}
    /\ UNCHANGED <<breakersLock, merged, chosen, status, probes>>

\* A HalfOpen breaker whose probe budget is used up is presented as Open.
Presented(b) == IF tag[b] = "HalfOpen" /\ inflight[b] >= HalfOpenMax THEN "Open" ELSE tag[b]

BuildSignals(r) ==
    /\ pc[r] = "build"
    /\ breakersLock = NoOne
    /\ merged' = [merged EXCEPT ![r] = [b \in Backends |-> Presented(b)]]
    /\ pc' = [pc EXCEPT ![r] = "decide"]
    /\ UNCHANGED <<lockVars, breakerVars, at, chosen, status, ripe, probes>>

\* The inner router sends to a backend that is not presented as Open, or
\* rejects (503 when all are Open), or hedges with a second backend that is
\* Closed; the handler answers both of these with an error.
InnerRoute(r) ==
    /\ pc[r] = "decide"
    /\ \/ \E b \in Backends :
             /\ merged[r][b] # "Open"
             /\ chosen' = [chosen EXCEPT ![r] = b]
             /\ pc' = [pc EXCEPT ![r] = "count"]
       \/ /\ \/ \A b \in Backends : merged[r][b] = "Open"
             \/ \E b \in Backends : /\ merged[r][b] = "Closed"
                                     /\ \E p \in Backends \ {b} : merged[r][p] # "Open"
          /\ pc' = [pc EXCEPT ![r] = "idle"]
          /\ chosen' = chosen
    /\ merged' = [merged EXCEPT ![r] = NoSignals]
    /\ UNCHANGED <<lockVars, breakerVars, at, status, ripe, probes>>

\* The decision is counted as a probe if the breaker is HalfOpen by now.
CountProbe(r) ==
    /\ pc[r] = "count"
    /\ breakersLock = NoOne
    /\ IF tag[chosen[r]] = "HalfOpen"
         THEN /\ inflight' = [inflight EXCEPT ![chosen[r]] = @ + 1]
              /\ probes' = probes \cup {r}
         ELSE UNCHANGED <<inflight, probes>>
    /\ pc' = [pc EXCEPT ![r] = "sent"]
    /\ UNCHANGED <<lockVars, tag, failures, transitionedAt, at, merged, chosen, status, ripe>>

-----------------------------------------------------------------------------
(* The handler and on_response()                                           *)

\* The backend answers and the handler builds the Outcome.
Answer(r) ==
    /\ pc[r] = "sent"
    /\ \E s \in Statuses : status' = [status EXCEPT ![r] = s]
    /\ pc' = [pc EXCEPT ![r] = "outcome"]
    /\ UNCHANGED <<lockVars, breakerVars, at, merged, chosen, ripe, probes>>

\* Upstream error, deadline or a client that went away: the handler returns
\* without calling on_response.
LoseOutcome(r) ==
    /\ MayLose
    /\ pc[r] = "sent"
    /\ pc' = [pc EXCEPT ![r] = "idle"]
    /\ chosen' = [chosen EXCEPT ![r] = 1]
    /\ probes' = probes \ {r}
    /\ UNCHANGED <<lockVars, breakerVars, at, merged, status, ripe>>

\* record_outcome takes breakers first ...
LockBreakers(r) ==
    /\ pc[r] = "lockBreakers"
    /\ breakersLock = NoOne
    /\ breakersLock' = r
    /\ pc' = [pc EXCEPT ![r] = "record"]
    /\ UNCHANGED <<transitionedLock, breakerVars, at, merged, chosen, status, ripe, probes>>

\* Outcome.ok is is_success() of the status, and !ok counts as a failure.
CountsAsFailure(s) == s # "2xx" \/ s \in {"408", "429", "5xx"}

Leave(b, t, when) ==
    /\ tag' = [tag EXCEPT ![b] = t]
    /\ failures' = [failures EXCEPT ![b] = 0]
    /\ transitionedAt' = [transitionedAt EXCEPT ![b] = when]

\* A `now` read before this moment is earlier than the new transitioned_at.
Trip(b) == Leave(b, "Open", "recent") /\ ripe' = {r \in ripe : at[r] # b}

\* ... and transitioned_at second.
RecordOutcome(r) ==
    /\ pc[r] = "record"
    /\ transitionedLock = NoOne
    /\ LET b == chosen[r]
           failed == CountsAsFailure(status[r])
       IN  \/ /\ tag[b] = "Closed" /\ failed
              /\ IF failures[b] + 1 >= FailureThreshold
                   THEN Trip(b)
                   ELSE /\ failures' = [failures EXCEPT ![b] = @ + 1]
                        /\ UNCHANGED <<tag, transitionedAt, ripe>>
              /\ UNCHANGED <<inflight, probes>>
           \/ /\ tag[b] = "Closed" /\ ~failed
              /\ failures' = [failures EXCEPT ![b] = 0]
              /\ UNCHANGED <<tag, inflight, transitionedAt, ripe, probes>>
           \/ /\ tag[b] = "HalfOpen"
              /\ IF failed THEN Trip(b)
                 ELSE Leave(b, "Closed", transitionedAt[b]) /\ ripe' = ripe
              /\ inflight' = [inflight EXCEPT ![b] = 0]
              /\ probes' = {p \in probes : chosen[p] # b}
           \/ /\ tag[b] = "Open"
              /\ UNCHANGED <<breakerVars, ripe, probes>>
    /\ breakersLock' = NoOne
    /\ pc' = [pc EXCEPT ![r] = "idle"]
    /\ chosen' = [chosen EXCEPT ![r] = 1]
    /\ status' = [status EXCEPT ![r] = "2xx"]
    /\ UNCHANGED <<transitionedLock, at, merged>>

-----------------------------------------------------------------------------
RouteStep(r) ==
    \/ EnsureBackend(r) \/ LockTransitioned(r) \/ MaybeTransition(r) \/ BuildSignals(r)
    \/ InnerRoute(r) \/ CountProbe(r)
ResponseStep(r) == LockBreakers(r) \/ RecordOutcome(r)

Next ==
    \/ \E r \in Requests : \/ Arrive(r) \/ RouteStep(r) \/ Answer(r) \/ LoseOutcome(r)
                           \/ ResponseStep(r)
    \/ \E b \in Backends : ResetTimeoutElapses(b)

Spec == Init /\ [][Next]_vars

\* Handlers keep running and a mutex that is free again and again is acquired;
\* the backend answers or the deadline ends the request, time passes, and
\* clients keep sending requests.
Fairness ==
    /\ \A r \in Requests : /\ SF_vars(RouteStep(r) \/ ResponseStep(r))
                           /\ WF_vars(Answer(r) \/ LoseOutcome(r))
                           /\ WF_vars(Arrive(r))
    /\ \A b \in Backends : WF_vars(ResetTimeoutElapses(b))
FairSpec == Spec /\ Fairness

-----------------------------------------------------------------------------
(* Properties that hold                                                    *)

\* Type invariant: a mutex is held exactly by the request that is between its
\* two acquisitions of a two-mutex critical section.
TypeOK ==
    /\ tag \in [Backends -> {"Closed", "Open", "HalfOpen"}]
    /\ failures \in [Backends -> Nat]
    /\ inflight \in [Backends -> Nat]
    /\ transitionedAt \in [Backends -> {"none", "recent", "elapsed"}]
    /\ pc \in [Requests -> {"idle", "ensure", "lockTransitioned", "transition", "build", "decide",
                            "count", "sent", "outcome", "lockBreakers", "record"}]
    /\ at \in [Requests -> Backends]
    /\ merged \in [Requests -> [Backends -> {"Closed", "Open", "HalfOpen"}]]
    /\ chosen \in [Requests -> Backends]
    /\ status \in [Requests -> Status]
    /\ ripe \subseteq Requests
    /\ probes \subseteq Requests
    /\ breakersLock \in Requests \cup {NoOne}
    /\ transitionedLock \in Requests \cup {NoOne}
    /\ \A r \in Requests : /\ pc[r] = "record" <=> breakersLock = r
                           /\ pc[r] = "transition" <=> transitionedLock = r

\* An Open breaker has an entry in transitioned_at, so that it can leave Open;
\* and a Closed one has fewer failures than trip it, the others none.
BreakerWellFormed ==
    \A b \in Backends :
        /\ tag[b] = "Open" => transitionedAt[b] # "none"
        /\ failures[b] > 0 => tag[b] = "Closed" /\ failures[b] < FailureThreshold

ProbesOf(b) == {r \in probes : chosen[r] = b}

\* half_open_inflight counts at least the probes of the current HalfOpen period
\* that are in flight: a slot is never handed out twice, whatever outcomes of
\* earlier periods arrive meanwhile.
ProbeSlotsCounted ==
    \A b \in Backends : /\ Cardinality(ProbesOf(b)) <= inflight[b]
                        /\ inflight[b] > 0 => tag[b] = "HalfOpen"

\* A breaker leaves Open only for HalfOpen, and only once reset_timeout has
\* elapsed since it opened, however old the `now` of the routing call is.
OpenForResetTimeout ==
    [][\A b \in Backends : tag[b] = "Open" /\ tag'[b] # "Open"
                              => tag'[b] = "HalfOpen" /\ transitionedAt[b] = "elapsed"]_vars

-----------------------------------------------------------------------------
(* What the code's documentation says and the code does not do             *)

\* proxy.rs:95 "Top-level request handler. Always returns `Ok`": a request that
\* has entered the handler leaves it.
HandlerReturns == \A r \in Requests : pc[r] # "idle" ~> pc[r] = "idle"
=============================================================================
