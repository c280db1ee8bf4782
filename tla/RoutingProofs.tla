--------------------------- MODULE RoutingProofs ----------------------------
(***************************************************************************)
(* The hedge budget holds for any number of concurrent requests, backends  *)
(* and any fraction: HedgesBounded is an invariant of RoutingSpec.                *)
(*                                                                         *)
(* It is not inductive, since it does not say what a request that has      *)
(* passed its check is about to count.  BudgetInv counts those requests    *)
(* together with the hedges fired, and remembers that a total read by      *)
(* budget_allows is not above decisions_total, which only grows.           *)
(***************************************************************************)
EXTENDS Routing, FiniteSetTheorems, TLAPS

Firing == {r \in Requests : pc[r] = "fire"}

\* The part of the state the budget depends on.
BudgetTypes ==
    /\ decisions \in Nat /\ hedges \in Nat
    /\ total \in [Requests -> Nat]
    /\ pc \in [Requests -> Steps]

\* What budget_allows reads: its own decision is counted before, so that the
\* total is not zero, and it is not above decisions_total.
TotalsRead ==
    \A r \in Requests :
        /\ total[r] <= decisions
        /\ pc[r] = "total" => decisions > 0
        /\ pc[r] = "budget" => total[r] > 0

\* The hedges fired, and those about to be counted, exceed the fraction of the
\* decisions by at most one for each request.
BudgetInv ==
    /\ BudgetTypes
    /\ TotalsRead
    /\ HedgeDen * (hedges + Cardinality(Firing))
          <= HedgeNum * decisions + HedgeDen * Cardinality(Requests)

\* The requests about to count a hedge are finitely many, at most all of them.
LEMMA FiringFinite ==
    IsFiniteSet(Firing) /\ Cardinality(Firing) \in Nat
        /\ Cardinality(Requests) \in Nat /\ Cardinality(Firing) <= Cardinality(Requests)
<1>1. Firing \subseteq Requests
  BY DEF Firing
<1>2. IsFiniteSet(Requests)
  BY RoutingAssumption DEF RoutingAssumption
<1>3. IsFiniteSet(Firing) /\ Cardinality(Firing) <= Cardinality(Requests)
  BY <1>1, <1>2, FS_Subset
<1> QED
  BY <1>2, <1>3, FS_CardinalityType

\* The same after a step.
LEMMA FiringPrimed ==
    Cardinality(Firing') \in Nat /\ Cardinality(Firing') <= Cardinality(Requests)
<1>1. Firing' \subseteq Requests
  BY DEF Firing
<1>2. IsFiniteSet(Requests)
  BY RoutingAssumption DEF RoutingAssumption
<1>3. IsFiniteSet(Firing') /\ Cardinality(Firing') <= Cardinality(Requests)
  BY <1>1, <1>2, FS_Subset
<1> QED
  BY <1>3, FS_CardinalityType

\* Multiplication of natural numbers is natural and keeps the order.
LEMMA TimesNat ==
    ASSUME NEW k \in Nat, NEW a \in Nat
    PROVE  k * a \in Nat
OBVIOUS

\* Multiplication is monotone on naturals.
LEMMA TimesMonotone ==
    ASSUME NEW k \in Nat, NEW a \in Nat, NEW b \in Nat, a <= b
    PROVE  k * a <= k * b
OBVIOUS

\* The budget when decisions are counted and hedges are not.
LEMMA BudgetKept ==
    ASSUME NEW num \in Nat, NEW den \in Nat, NEW d \in Nat, NEW d2 \in Nat,
           NEW h \in Nat, NEW r \in Nat,
           d <= d2, den * h <= num * d + den * r
    PROVE  den * h <= num * d2 + den * r
<1>1. num * d <= num * d2
  BY TimesMonotone
<1>2. num * d \in Nat /\ num * d2 \in Nat /\ den * h \in Nat /\ den * r \in Nat
  BY TimesNat
<1> QED
  BY <1>1, <1>2

\* The budget when a check that read an old total succeeds: all requests may be
\* about to count, and the hedges counted are below the fraction.
LEMMA BudgetGranted ==
    ASSUME NEW num \in Nat, NEW den \in Nat, NEW d \in Nat, NEW t \in Nat,
           NEW h \in Nat, NEW c \in Nat, NEW r \in Nat,
           t <= d, c <= r, h * den < num * t
    PROVE  den * (h + c) <= num * d + den * r
<1>1. num * t <= num * d /\ den * c <= den * r
  BY TimesMonotone
<1>2. den * (h + c) = h * den + den * c
  OBVIOUS
<1>3. /\ num * t \in Nat /\ num * d \in Nat /\ h * den \in Nat
      /\ den * c \in Nat /\ den * r \in Nat
  BY TimesNat
<1> QED
  BY <1>1, <1>2, <1>3

\* The facts about the constants and the state that the arithmetic needs.
LEMMA BudgetNumbers ==
    ASSUME BudgetTypes
    PROVE  /\ HedgeNum \in Nat /\ HedgeDen \in Nat
           /\ decisions \in Nat /\ hedges \in Nat
           /\ Cardinality(Firing) \in Nat /\ Cardinality(Requests) \in Nat
           /\ Cardinality(Firing) <= Cardinality(Requests)
  BY FiringFinite, RoutingAssumption DEF RoutingAssumption, BudgetTypes

\* Initially nothing is counted.
LEMMA BudgetInit == RoutingInit => BudgetInv
<1> SUFFICES ASSUME RoutingInit PROVE BudgetInv
  OBVIOUS
<1>1. BudgetTypes
  BY DEF RoutingInit, BudgetTypes, Steps
<1>2. Firing = {}
  BY DEF RoutingInit, Firing
<1>3. Cardinality(Firing) = 0
  BY <1>2, FS_EmptySet
<1>4. HedgeDen * 0 = 0 /\ HedgeNum * 0 = 0 /\ HedgeDen * Cardinality(Requests) \in Nat
  BY <1>1, BudgetNumbers, TimesNat
<1>5. hedges = 0 /\ decisions = 0
  BY DEF RoutingInit
<1>6. TotalsRead
  BY DEF RoutingInit, TotalsRead
<1> QED
  BY <1>1, <1>3, <1>4, <1>5, <1>6 DEF BudgetInv

\* A step that counts no hedge and changes no one's readiness to count one.
LEMMA QuietStep ==
    ASSUME BudgetInv, BudgetTypes', decisions <= decisions', hedges' = hedges,
           Firing' = Firing, TotalsRead'
    PROVE  BudgetInv'
<1>1. BudgetTypes
  BY DEF BudgetInv
<1>2. /\ HedgeNum \in Nat /\ HedgeDen \in Nat /\ decisions \in Nat /\ hedges \in Nat
      /\ Cardinality(Firing) \in Nat /\ Cardinality(Requests) \in Nat
  BY <1>1, BudgetNumbers
<1>3. decisions' \in Nat
  BY DEF BudgetTypes
<1>4. hedges + Cardinality(Firing) \in Nat
  BY <1>2
<1>5. HedgeDen * (hedges + Cardinality(Firing))
         <= HedgeNum * decisions + HedgeDen * Cardinality(Requests)
  BY DEF BudgetInv
<1>6. HedgeDen * (hedges + Cardinality(Firing))
         <= HedgeNum * decisions' + HedgeDen * Cardinality(Requests)
  BY <1>2, <1>3, <1>4, <1>5, BudgetKept
<1> QED
  BY <1>6 DEF BudgetInv

\* A step of request r that counts no hedge and moves r between steps at which
\* it is not about to.
LEMMA MoveStep ==
    ASSUME BudgetInv, NEW r \in Requests, NEW x \in Steps \ {"fire"},
           pc[r] # "fire", pc' = [pc EXCEPT ![r] = x],
           decisions' \in Nat, decisions <= decisions', hedges' = hedges,
           total' \in [Requests -> Nat], TotalsRead'
    PROVE  BudgetInv'
<1>1. hedges \in Nat /\ pc \in [Requests -> Steps]
  BY DEF BudgetInv, BudgetTypes
<1>2. Firing' = Firing
  BY <1>1 DEF Firing
<1>3. BudgetTypes'
  BY <1>1 DEF BudgetTypes
<1> QED
  BY <1>2, <1>3, QuietStep

\* The steps that leave the counters alone.
LEMMA UncountedStep ==
    ASSUME BudgetInv, NEW r \in Requests,
           Arrive(r) \/ Lookup(r) \/ Inner(r) \/ Insert(r) \/ Return(r)
    PROVE  BudgetInv'
<1>1. decisions' = decisions /\ hedges' = hedges /\ total' = total
  BY DEF Arrive, Lookup, Inner, Insert, Return, hedgeVars
<1>2. pc[r] # "fire"
  BY DEF Arrive, Lookup, Inner, Insert, Return
<1>3. PICK x \in Steps \ {"fire", "total", "budget"} : pc' = [pc EXCEPT ![r] = x]
  BY DEF Arrive, Lookup, Inner, Insert, Return, Steps
<1>4. decisions \in Nat /\ total \in [Requests -> Nat] /\ pc \in [Requests -> Steps]
         /\ TotalsRead
  BY DEF BudgetInv, BudgetTypes
<1>5. TotalsRead'
  BY <1>1, <1>3, <1>4 DEF TotalsRead
<1>6. /\ x \in Steps \ {"fire"}
      /\ pc[r] # "fire" /\ pc' = [pc EXCEPT ![r] = x]
      /\ decisions' \in Nat /\ decisions <= decisions' /\ hedges' = hedges
      /\ total' \in [Requests -> Nat] /\ TotalsRead'
  BY <1>1, <1>2, <1>3, <1>4, <1>5 DEF Steps
<1> QED
  BY <1>6, MoveStep

\* A decision is counted.
LEMMA CountDecisionStep ==
    ASSUME BudgetInv, NEW r \in Requests, CountDecision(r)
    PROVE  BudgetInv'
<1>1. decisions' = decisions + 1 /\ hedges' = hedges /\ total' = total /\ pc[r] = "count"
  BY DEF CountDecision
<1>2. PICK x \in {"done", "total"} : pc' = [pc EXCEPT ![r] = x]
  BY DEF CountDecision
<1>3. decisions \in Nat /\ total \in [Requests -> Nat] /\ pc \in [Requests -> Steps]
         /\ TotalsRead
  BY DEF BudgetInv, BudgetTypes
<1>4. TotalsRead'
  BY <1>1, <1>2, <1>3 DEF TotalsRead
<1>5. x \in Steps \ {"fire"}
  BY DEF Steps
<1>6. /\ x \in Steps \ {"fire"}
      /\ pc[r] # "fire" /\ pc' = [pc EXCEPT ![r] = x]
      /\ decisions' \in Nat /\ decisions <= decisions' /\ hedges' = hedges
      /\ total' \in [Requests -> Nat] /\ TotalsRead'
  BY <1>1, <1>2, <1>3, <1>4, <1>5 DEF Steps
<1> QED
  BY <1>6, MoveStep

\* budget_allows reads the total.
LEMMA LoadTotalStep ==
    ASSUME BudgetInv, NEW r \in Requests, LoadTotal(r)
    PROVE  BudgetInv'
<1>1. /\ decisions' = decisions /\ hedges' = hedges
      /\ total' = [total EXCEPT ![r] = decisions]
      /\ pc[r] = "total" /\ pc' = [pc EXCEPT ![r] = "budget"]
  BY DEF LoadTotal
<1>2. decisions \in Nat /\ total \in [Requests -> Nat] /\ pc \in [Requests -> Steps]
         /\ TotalsRead
  BY DEF BudgetInv, BudgetTypes
<1>3. TotalsRead'
  BY <1>1, <1>2 DEF TotalsRead
<1>4. "budget" \in Steps \ {"fire"} /\ total' \in [Requests -> Nat]
  BY <1>1, <1>2 DEF Steps
<1>5. /\ "budget" \in Steps \ {"fire"}
      /\ pc[r] # "fire" /\ pc' = [pc EXCEPT ![r] = "budget"]
      /\ decisions' \in Nat /\ decisions <= decisions' /\ hedges' = hedges
      /\ total' \in [Requests -> Nat] /\ TotalsRead'
  BY <1>1, <1>2, <1>3, <1>4 DEF Steps
<1> QED
  BY <1>5, MoveStep

\* The check refuses, or it succeeds and one more request is about to count.
LEMMA CheckBudgetStep ==
    ASSUME BudgetInv, NEW r \in Requests, CheckBudget(r)
    PROVE  BudgetInv'
<1>1. /\ decisions' = decisions /\ hedges' = hedges
      /\ total' = [total EXCEPT ![r] = 0] /\ pc[r] = "budget"
  BY DEF CheckBudget
<1>2. \/ pc' = [pc EXCEPT ![r] = "done"]
      \/ BudgetAllows(hedges, total[r]) /\ pc' = [pc EXCEPT ![r] = "fire"]
  BY DEF CheckBudget
<1>3. /\ decisions \in Nat /\ hedges \in Nat /\ total \in [Requests -> Nat]
      /\ pc \in [Requests -> Steps] /\ TotalsRead /\ BudgetTypes
  BY DEF BudgetInv, BudgetTypes
<1>4. total' \in [Requests -> Nat]
  BY <1>1, <1>3
<1>5. TotalsRead'
  BY <1>1, <1>2, <1>3 DEF TotalsRead
<1>6. CASE pc' = [pc EXCEPT ![r] = "done"]
  <2>1. /\ "done" \in Steps \ {"fire"}
        /\ pc[r] # "fire" /\ pc' = [pc EXCEPT ![r] = "done"]
        /\ decisions' \in Nat /\ decisions <= decisions' /\ hedges' = hedges
        /\ total' \in [Requests -> Nat] /\ TotalsRead'
    BY <1>1, <1>3, <1>4, <1>5, <1>6 DEF Steps
  <2> QED
    BY <2>1, MoveStep
<1>7. CASE BudgetAllows(hedges, total[r]) /\ pc' = [pc EXCEPT ![r] = "fire"]
  <2>1. BudgetTypes'
    BY <1>1, <1>3, <1>4, <1>7 DEF BudgetTypes, Steps
  <2>2. PICK c \in Nat : c = Cardinality(Firing') /\ c <= Cardinality(Requests)
    BY FiringPrimed
  <2>3. HedgeNum \in Nat /\ HedgeDen \in Nat /\ Cardinality(Requests) \in Nat
    BY <1>3, BudgetNumbers
  <2>4. total[r] \in Nat /\ total[r] <= decisions /\ total[r] > 0
    BY <1>1, <1>3 DEF TotalsRead
  <2>5. hedges * HedgeDen < HedgeNum * total[r]
    BY <1>7, <2>4 DEF BudgetAllows
  <2>6. HedgeDen * (hedges + c) <= HedgeNum * decisions + HedgeDen * Cardinality(Requests)
    BY <1>3, <2>2, <2>3, <2>4, <2>5, BudgetGranted
  <2> QED
    BY <1>1, <1>5, <2>1, <2>2, <2>6 DEF BudgetInv
<1> QED
  BY <1>2, <1>6, <1>7

\* A hedge is counted, by a request that is no longer about to.
LEMMA CountHedgeStep ==
    ASSUME BudgetInv, NEW r \in Requests, CountHedge(r)
    PROVE  BudgetInv'
<1>1. /\ decisions' = decisions /\ hedges' = hedges + 1 /\ total' = total
      /\ pc[r] = "fire" /\ pc' = [pc EXCEPT ![r] = "done"]
  BY DEF CountHedge
<1>2. /\ decisions \in Nat /\ hedges \in Nat /\ total \in [Requests -> Nat]
      /\ pc \in [Requests -> Steps] /\ TotalsRead
  BY DEF BudgetInv, BudgetTypes
<1>3. BudgetTypes'
  BY <1>1, <1>2 DEF BudgetTypes, Steps
<1>4. TotalsRead'
  BY <1>1, <1>2 DEF TotalsRead
<1>5. Firing' = Firing \ {r} /\ r \in Firing
  BY <1>1, <1>2 DEF Firing
<1>6. Cardinality(Firing') = Cardinality(Firing) - 1 /\ Cardinality(Firing) \in Nat
  BY <1>5, FiringFinite, FS_RemoveElement
<1>7. hedges' + Cardinality(Firing') = hedges + Cardinality(Firing)
  BY <1>1, <1>2, <1>6
<1>8. HedgeDen * (hedges + Cardinality(Firing))
         <= HedgeNum * decisions + HedgeDen * Cardinality(Requests)
  BY DEF BudgetInv
<1>9. HedgeDen * (hedges' + Cardinality(Firing'))
         <= HedgeNum * decisions' + HedgeDen * Cardinality(Requests)
  BY <1>1, <1>7, <1>8
<1> QED
  BY <1>3, <1>4, <1>9 DEF BudgetInv

\* Every step of every request keeps the budget.
LEMMA BudgetStep == BudgetInv /\ [RoutingNext]_routingVars => BudgetInv'
<1> SUFFICES ASSUME BudgetInv, [RoutingNext]_routingVars PROVE BudgetInv'
  OBVIOUS
<1>1. CASE RoutingNext
  <2>1. PICK r \in Requests :
           \/ Arrive(r) \/ Lookup(r) \/ Inner(r) \/ Insert(r) \/ CountDecision(r)
           \/ LoadTotal(r) \/ CheckBudget(r) \/ CountHedge(r) \/ Return(r)
    BY <1>1 DEF RoutingNext
  <2> QED
    BY <2>1, UncountedStep, CountDecisionStep, LoadTotalStep, CheckBudgetStep,
       CountHedgeStep
<1>2. CASE UNCHANGED routingVars
  BY <1>2 DEF routingVars, hedgeVars, BudgetInv, BudgetTypes, TotalsRead, Firing
<1> QED
  BY <1>1, <1>2

\* The invariant is the bound and what is about to be counted.
LEMMA BudgetImplies == BudgetInv => HedgesBounded
<1> SUFFICES ASSUME BudgetInv PROVE HedgesBounded
  OBVIOUS
<1>1. BudgetTypes
  BY DEF BudgetInv
<1>2. /\ HedgeNum \in Nat /\ HedgeDen \in Nat /\ decisions \in Nat /\ hedges \in Nat
      /\ Cardinality(Firing) \in Nat /\ Cardinality(Requests) \in Nat
  BY <1>1, BudgetNumbers
<1>3. HedgeDen * hedges <= HedgeDen * (hedges + Cardinality(Firing))
  BY <1>2, TimesMonotone
<1>4. /\ HedgeDen * hedges \in Nat /\ HedgeDen * (hedges + Cardinality(Firing)) \in Nat
      /\ HedgeNum * decisions \in Nat /\ HedgeDen * Cardinality(Requests) \in Nat
  BY <1>2, TimesNat
<1>5. HedgeDen * (hedges + Cardinality(Firing))
         <= HedgeNum * decisions + HedgeDen * Cardinality(Requests)
  BY DEF BudgetInv
<1>6. HedgeDen * hedges = hedges * HedgeDen
  BY <1>2
<1> QED
  BY <1>3, <1>4, <1>5, <1>6 DEF HedgesBounded

\* The hedge budget of HedgedRouter, for any number of concurrent requests and
\* any fraction: hedges_total exceeds hedge_max_fraction of decisions_total by
\* at most the number of requests.
THEOREM HedgesStayBounded == RoutingSpec => []HedgesBounded
<1>1. RoutingInit => BudgetInv
  BY BudgetInit
<1>2. BudgetInv /\ [RoutingNext]_routingVars => BudgetInv'
  BY BudgetStep
<1>3. BudgetInv => HedgesBounded
  BY BudgetImplies
<1> QED
  BY <1>1, <1>2, <1>3, PTL DEF RoutingSpec

=============================================================================
