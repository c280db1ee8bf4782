--------------------------- MODULE TokenMetrics ---------------------------
(***************************************************************************)
(* TokenLevelAggregator (riftgate-obs): per-dimension latency metrics in a *)
(* shared DashMap, with a cap on the number of dimensions and a reservoir  *)
(* of samples per metric.  A recording call reads the size of the map and  *)
(* then, in a second critical section, finds or inserts its dimension and  *)
(* records under the entry's lock; other callers run in between.           *)
(***************************************************************************)
EXTENDS Naturals, FiniteSets, FiniteSetsExt, Sequences

CONSTANTS
    Recorders,          \* threads that record
    Dimensions,         \* (tenant, model, route) triples of the traffic
    DimensionCap,       \* dimension_cap
    ReservoirCapacity,  \* reservoir_capacity
    MaxRecords          \* bound on the calls of a behaviour

VARIABLES
    dimensions,  \* the map: dimension -> metric -> reservoir
    target,      \* a thread's call between its two critical sections
    calls        \* calls begun

metricsVars == <<dimensions, target, calls>>

Metrics == {"ttft", "inter_token"}

\* TokenDimension::other()
Other == "other"

NoRecord == [dim |-> "none", for |-> "none", metric |-> "none"]

EmptyReservoir == [count |-> 0, items |-> <<>>]

\* A sample is the dimension it was measured for: what the properties tell
\* apart.  The histogram of a metric holds `count` values.
EmptyMetrics == [m \in Metrics |-> EmptyReservoir]

MetricsInit ==
    /\ dimensions = [d \in {} |-> EmptyMetrics]
    /\ target = [r \in Recorders |-> NoRecord]
    /\ calls = 0

\* A cap compared with `>` admits one dimension too many.
TargetDimOffByOne(d) ==
    IF Cardinality(DOMAIN dimensions) > DimensionCap THEN Other ELSE d

TargetDim(d) ==
    IF Cardinality(DOMAIN dimensions) >= DimensionCap THEN Other ELSE d

\* record_ttft or record_inter_token begins: the map's size decides the
\* dimension.  len() adds up the shards; entries are never removed, so the
\* sum is the size at some instant of the call.
CheckCap(r) ==
    /\ target[r] = NoRecord
    /\ calls < MaxRecords
    /\ \E d \in Dimensions, m \in Metrics :
          target' = [target EXCEPT ![r] =
                        [dim |-> TargetDim(d), for |-> d, metric |-> m]]
    /\ calls' = calls + 1
    /\ UNCHANGED dimensions

\* The reservoirs VitterReservoir::add may leave: the first samples fill it,
\* the n-th replaces the item at a random index below n, if there is one.
Add(reservoir, sample) ==
    LET n == reservoir.count + 1
    IN  IF n <= ReservoirCapacity
        THEN {[count |-> n, items |-> Append(reservoir.items, sample)]}
        ELSE {[count |-> n,
               items |-> IF j <= ReservoirCapacity
                         THEN [reservoir.items EXCEPT ![j] = sample]
                         ELSE reservoir.items] : j \in 1..n}

\* The entry's metrics, inserted empty if the dimension is new.
EntryFor(d) ==
    IF d \in DOMAIN dimensions THEN dimensions[d] ELSE EmptyMetrics

\* entry().or_insert_with() and the recording closure, under the entry's lock.
RecordMetric(r) ==
    /\ target[r] # NoRecord
    /\ LET t == target[r]
           entry == EntryFor(t.dim)
       IN  \E reservoir \in Add(entry[t.metric], t.for) :
              dimensions' =
                 [d \in DOMAIN dimensions \cup {t.dim} |->
                    IF d = t.dim
                    THEN [entry EXCEPT ![t.metric] = reservoir]
                    ELSE dimensions[d]]
    /\ target' = [target EXCEPT ![r] = NoRecord]
    /\ UNCHANGED calls

MetricsNext == \E r \in Recorders : CheckCap(r) \/ RecordMetric(r)

MetricsSpec == MetricsInit /\ [][MetricsNext]_metricsVars

---------------------------------------------------------------------------
Recorded(d) == dimensions[d]["ttft"].count + dimensions[d]["inter_token"].count

\* Every finished record_ttft / record_inter_token call is counted under
\* exactly one dimension, a reservoir holds as many samples as it can and
\* only samples of its own dimension (any, for `other`), and the threads
\* that pass the cap check together push the map at most one entry each
\* beyond dimension_cap (`other` included).
SamplesAccounted ==
    /\ MapThenSumSet(Recorded, DOMAIN dimensions)
          = calls - Cardinality({r \in Recorders : target[r] # NoRecord})
    /\ Cardinality(DOMAIN dimensions) <= DimensionCap + Cardinality(Recorders)
    /\ \A d \in DOMAIN dimensions, m \in Metrics :
          LET reservoir == dimensions[d][m]
          IN  /\ Len(reservoir.items) = Min({reservoir.count, ReservoirCapacity})
              /\ d # Other =>
                    \A i \in DOMAIN reservoir.items : reservoir.items[i] = d
==========================================================================
