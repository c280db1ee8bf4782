------------------------------ MODULE Routing -------------------------------
(***************************************************************************)
(* The routers main.rs stacks under the circuit breaker: HedgedRouter over *)
(* KvAwareRouter over WeightedRandomRouter (crates/riftgate-router).       *)
(*                                                                         *)
(* Requests call route concurrently.  They share the prefix trie, behind   *)
(* one RwLock whose critical sections are one step each, and the two       *)
(* atomic counters of the hedge budget, each access to which is a step.    *)
(*                                                                         *)
(* A request brings the signals the breaker and the GPU poller give it: a  *)
(* function that says of each backend whether its circuit is Closed, Open  *)
(* or HalfOpen and whether it is hot.  Its body is the sequence of its     *)
(* chunk hashes.  Whether a backend's latency estimate is warmed up and    *)
(* above the threshold is a choice (the estimator is the module            *)
(* P2Estimator), and so is the random draw of the alias table (the module  *)
(* AliasTable), which may be any backend.                                  *)
(***************************************************************************)
EXTENDS Integers, Sequences, FiniteSets, SequencesExt

CONSTANTS
    Requests,           \* concurrent calls of route
    NBackends,          \* the pool is 1..NBackends, in this order
    Bodies,             \* sequences of chunk hashes
    MinPrefix,          \* min_prefix_bytes_to_route, in chunks
    MaxTrieEntries,     \* max_trie_entries
    HedgeNum, HedgeDen, \* hedge_max_fraction
    MaxDecisions        \* bound on the calls of route

Backends == 1..NBackends
Pool == [i \in 1..NBackends |-> i]
Signals == [Backends -> [circuit : {"Closed", "Open", "HalfOpen"}, hot : BOOLEAN]]

ASSUME RoutingAssumption ==
    /\ IsFiniteSet(Requests)
    /\ NBackends \in Nat \ {0}
    /\ MaxTrieEntries \in Nat \ {0}
    /\ MinPrefix \in Nat \ {0}
    /\ HedgeNum \in Nat /\ HedgeDen \in Nat \ {0}

VARIABLES
    trie,           \* the backend at each node that bears one
    count,          \* PrefixTrie.count
    decisions,      \* decisions_total
    hedges,         \* hedges_total
    pc, body, sig,  \* per request: where it is, and the arguments of route
    sendTo,         \* per request: the backends it was sent to, <<>> for Reject
    total,          \* per request: decisions_total as budget_allows read it
    started         \* bound: calls of route so far

trieVars == <<trie, count>>
hedgeVars == <<decisions, hedges, total>>
routingVars == <<trieVars, hedgeVars, pc, body, sig, sendTo, started>>

\* Where a request can be.
Steps == {"idle", "lookup", "inner", "insert", "count", "total", "budget", "fire", "done"}

\* The locals a request no longer needs are reset: its body once the trie is
\* done with it, the GPU pressure once the weighted router has used it.
Cooled(s) == [b \in Backends |-> [s[b] EXCEPT !.hot = FALSE]]
NoSignals == [b \in Backends |-> [circuit |-> "Closed", hot |-> FALSE]]

RoutingInit ==
    /\ trie = <<>> /\ count = 0
    /\ decisions = 0 /\ hedges = 0
    /\ pc = [r \in Requests |-> "idle"]
    /\ body = [r \in Requests |-> <<>>]
    /\ sig = [r \in Requests |-> NoSignals]
    /\ sendTo = [r \in Requests |-> <<>>]
    /\ total = [r \in Requests |-> 0]
    /\ started = 0

Arrive(r) ==
    /\ pc[r] = "idle" /\ started < MaxDecisions
    /\ started' = started + 1
    /\ \E b \in Bodies, s \in Signals :
          /\ body' = [body EXCEPT ![r] = b]
          /\ sig' = [sig EXCEPT ![r] = s]
          /\ pc' = [pc EXCEPT ![r] = IF Len(b) < MinPrefix THEN "inner" ELSE "lookup"]
    /\ UNCHANGED <<trieVars, hedgeVars, sendTo>>

(***************************************************************************)
(* KvAwareRouter.                                                          *)
(***************************************************************************)

\* longest_match: the backend at the deepest node on the way, as a set of at
\* most one.
LongestMatch(hashes) ==
    LET nodes == {p \in DOMAIN trie : IsPrefix(p, hashes)}
    IN  {trie[p] : p \in {q \in nodes : \A o \in nodes : Len(o) <= Len(q)}}

\* The read lock: a backend whose circuit is Closed is taken at once.
Lookup(r) ==
    /\ pc[r] = "lookup"
    /\ \/ \E b \in LongestMatch(body[r]) :
             /\ sig[r][b].circuit = "Closed"
             /\ sendTo' = [sendTo EXCEPT ![r] = <<b>>]
             /\ pc' = [pc EXCEPT ![r] = "count"]
             /\ body' = [body EXCEPT ![r] = <<>>]
             /\ sig' = [sig EXCEPT ![r] = Cooled(@)]
       \/ /\ \A b \in LongestMatch(body[r]) : sig[r][b].circuit # "Closed"
          /\ pc' = [pc EXCEPT ![r] = "inner"]
          /\ UNCHANGED <<body, sig, sendTo>>
    /\ UNCHANGED <<trieVars, hedgeVars, started>>

\* What a scan that takes any circuit once nothing is cool would do.
WeightedRouteAnyway(draws, s) ==
    LET scan == draws \o Pool
        cool == {i \in 1..Len(scan) : ~s[scan[i]].hot}
    IN  IF cool # {} THEN <<scan[Min(cool)]>> ELSE <<scan[1]>>

\* WeightedRandomRouter::route: the n draws and then the pool are scanned the
\* same way, for a backend that is neither Open nor hot, else for one that is
\* not Open.  <<>> is Reject.
WeightedRoute(draws, s) ==
    LET scan == draws \o Pool
        up   == {i \in 1..Len(scan) : s[scan[i]].circuit # "Open"}
        cool == {i \in up : ~s[scan[i]].hot}
    IN  IF cool # {} THEN <<scan[Min(cool)]>>
        ELSE IF up # {} THEN <<scan[Min(up)]>> ELSE <<>>

Inner(r) ==
    /\ pc[r] = "inner"
    /\ \E draws \in [1..NBackends -> Backends] :
          LET d == WeightedRoute(draws, sig[r])
          IN  /\ sendTo' = [sendTo EXCEPT ![r] = d]
              /\ IF d # <<>> /\ Len(body[r]) >= MinPrefix
                 THEN pc' = [pc EXCEPT ![r] = "insert"] /\ UNCHANGED body
                 ELSE /\ pc' = [pc EXCEPT ![r] = "count"]
                      /\ body' = [body EXCEPT ![r] = <<>>]
    /\ sig' = [sig EXCEPT ![r] = Cooled(@)]
    /\ UNCHANGED <<trieVars, hedgeVars, started>>

Overfull == count >= MaxTrieEntries

\* The nodes an insert makes bear a backend.
NewNodes(old, hashes) == IF hashes \in DOMAIN old THEN 0 ELSE 1

\* The write lock: PrefixTrie::insert, with its full flush.
Insert(r) ==
    /\ pc[r] = "insert"
    /\ LET old == IF Overfull THEN <<>> ELSE trie
           new == [p \in DOMAIN old \cup {body[r]} |->
                      IF p = body[r] THEN sendTo[r][1] ELSE old[p]]
       IN  /\ trie' = new
           /\ count' = (IF Overfull THEN 0 ELSE count) + NewNodes(old, body[r])
    /\ pc' = [pc EXCEPT ![r] = "count"]
    /\ body' = [body EXCEPT ![r] = <<>>]
    /\ UNCHANGED <<hedgeVars, sig, sendTo, started>>

(***************************************************************************)
(* HedgedRouter.                                                           *)
(***************************************************************************)

\* decisions_total is counted; a Reject, and a Send to a backend whose estimate
\* is not warmed up or is below the threshold, pass straight through.
CountDecision(r) ==
    /\ pc[r] = "count"
    /\ decisions' = decisions + 1
    /\ \/ pc' = [pc EXCEPT ![r] = "done"]
       \/ sendTo[r] # <<>> /\ pc' = [pc EXCEPT ![r] = "total"]
    /\ UNCHANGED <<trieVars, hedges, total, body, sig, sendTo, started>>

\* budget_allows reads decisions_total ...
LoadTotal(r) ==
    /\ pc[r] = "total"
    /\ total' = [total EXCEPT ![r] = decisions]
    /\ pc' = [pc EXCEPT ![r] = "budget"]
    /\ UNCHANGED <<trieVars, decisions, hedges, body, sig, sendTo, started>>

\* ... and then hedges_total: fired / total < hedge_max_fraction.
BudgetAllows(fired, of) == of = 0 \/ fired * HedgeDen < HedgeNum * of

\* pick_secondary: the first Closed backend of the pool that is not the primary.
Secondaries(primary, s) ==
    {b \in Backends \ {primary} : s[b].circuit = "Closed"}

PickSecondary(primary, s) == Min(Secondaries(primary, s))

CheckBudget(r) ==
    /\ pc[r] = "budget"
    /\ LET primary == sendTo[r][1]
       IN  IF BudgetAllows(hedges, total[r]) /\ Secondaries(primary, sig[r]) # {}
           THEN /\ sendTo' = [sendTo EXCEPT ![r] = <<primary, PickSecondary(primary, sig[r])>>]
                /\ pc' = [pc EXCEPT ![r] = "fire"]
           ELSE /\ pc' = [pc EXCEPT ![r] = "done"]
                /\ UNCHANGED sendTo
    /\ total' = [total EXCEPT ![r] = 0]
    /\ UNCHANGED <<trieVars, decisions, hedges, body, sig, started>>

\* What counting both requests of a hedge would do.
CountHedgeTwice(r) ==
    /\ pc[r] = "fire"
    /\ hedges' = hedges + Len(sendTo[r])
    /\ pc' = [pc EXCEPT ![r] = "done"]
    /\ UNCHANGED <<trieVars, decisions, total, body, sig, sendTo, started>>

\* A hedge is counted once, whatever number of requests it sends.
CountHedge(r) ==
    /\ pc[r] = "fire"
    /\ hedges' = hedges + 1
    /\ pc' = [pc EXCEPT ![r] = "done"]
    /\ UNCHANGED <<trieVars, decisions, total, body, sig, sendTo, started>>

\* route returns.
Return(r) ==
    /\ pc[r] = "done"
    /\ pc' = [pc EXCEPT ![r] = "idle"]
    /\ sig' = [sig EXCEPT ![r] = NoSignals]
    /\ sendTo' = [sendTo EXCEPT ![r] = <<>>]
    /\ UNCHANGED <<trieVars, hedgeVars, body, started>>

RoutingNext ==
    \E r \in Requests :
        \/ Arrive(r) \/ Lookup(r) \/ Inner(r) \/ Insert(r) \/ CountDecision(r)
        \/ LoadTotal(r) \/ CheckBudget(r) \/ CountHedge(r) \/ Return(r)

RoutingSpec == RoutingInit /\ [][RoutingNext]_routingVars

(***************************************************************************)
(* Properties.                                                             *)
(***************************************************************************)

\* No decision goes to a backend whose circuit the request was shown as Open;
\* a request is rejected only if all of them are; a hedge adds a Closed backend
\* that is not the primary.
DecisionHonoursSignals ==
    \A r \in Requests : pc[r] = "done" =>
        LET d == sendTo[r]
        IN  /\ \A i \in 1..Len(d) : sig[r][d[i]].circuit # "Open"
            /\ d = <<>> => \A b \in Backends : sig[r][b].circuit = "Open"
            /\ Len(d) = 2 => d[1] # d[2] /\ sig[r][d[2]].circuit = "Closed"

\* The hedge budget under concurrency: the hedges fired exceed
\* hedge_max_fraction of the decisions by at most one for every request that
\* may be between its check and its count.
HedgesBounded ==
    hedges * HedgeDen <= HedgeNum * decisions + HedgeDen * Cardinality(Requests)

=============================================================================
