---------------------------- MODULE P2Estimator -----------------------------
(***************************************************************************)
(* The online quantile estimator of HedgedRouter                           *)
(* (crates/riftgate-router/src/hedged.rs): five markers, each a height     *)
(* and a position.  Positions are exact.  The target quantile is           *)
(* QuantileNum / QuantileDen and desired positions are kept in units of    *)
(* 1 / (2 * QuantileDen), in which they are integers.                      *)
(*                                                                         *)
(* Heights are latencies, abstracted to their order: the value the         *)
(* parabolic formula gives is any that passes the test the code puts it    *)
(* to, strictly between the neighbours, and the linear one lies between    *)
(* the marker and the neighbour it moves towards.                          *)
(***************************************************************************)
EXTENDS Integers, Sequences, FiniteSets, SequencesExt

CONSTANTS
    QuantileNum, QuantileDen,   \* hedge_after_quantile
    Latencies,                  \* an interval of integers
    MaxObservations             \* bound on the calls of observe

VARIABLES q, n, desired, observed

p2Vars == <<q, n, desired, observed>>

Unit == 2 * QuantileDen

\* What half the increment for the middle marker would be.
IncrementsHalved == <<0, QuantileNum, QuantileNum, QuantileDen + QuantileNum, Unit>>

\* dn, and the desired positions after five observations.
Increments == <<0, QuantileNum, 2 * QuantileNum, QuantileDen + QuantileNum, Unit>>
FirstDesired ==
    <<0, 4 * QuantileNum, 8 * QuantileNum, 4 * QuantileDen + 4 * QuantileNum, 4 * Unit>>

P2Init == q = <<>> /\ n = <<>> /\ desired = <<>> /\ observed = 0

\* The first five observations are held, and sorted when the fifth arrives.
Hold(x) ==
    /\ observed < 5
    /\ observed' = observed + 1
    /\ IF observed < 4
       THEN q' = Append(q, x) /\ UNCHANGED <<n, desired>>
       ELSE /\ q' = SortSeq(Append(q, x), <)
            /\ n' = <<0, 1, 2, 3, 4>>
            /\ desired' = FirstDesired

\* The marker below the cell x falls in; an x outside all cells has become an
\* end marker.
Cell(x) ==
    IF x < q[1] THEN 1
    ELSE IF x >= q[5] THEN 4
    ELSE CHOOSE k \in 1..4 : q[k] <= x /\ x < q[k + 1]

\* Room for a marker to move by dir without meeting its neighbour.
HasRoom(m, i, dir) == IF dir = 1 THEN m.ns[i + 1] - m.ns[i] > 1 ELSE m.ns[i] - m.ns[i - 1] > 1

\* The heights marker i may be given when it moves by dir.
NewHeights(m, i, dir) ==
    LET parabolic == {v \in Latencies : m.hs[i - 1] < v /\ v < m.hs[i + 1]}
        towards   == m.hs[i + dir]
        linear    == {v \in Latencies : \/ m.hs[i] <= v /\ v <= towards
                                        \/ towards <= v /\ v <= m.hs[i]}
    IN  parabolic \cup linear

\* The pass of the loop for marker i, as the set of its outcomes.
Adjust(m, i) ==
    LET d == desired'[i] - Unit * m.ns[i]
        dirs == {s \in {1, -1} : s * d >= Unit /\ HasRoom(m, i, s)}
    IN  IF dirs = {} THEN {m}
        ELSE UNION {{[hs |-> [j \in 1..5 |-> IF j = i THEN v ELSE m.hs[j]],
                      ns |-> [j \in 1..5 |-> IF j = i THEN m.ns[j] + s ELSE m.ns[j]]] :
                        v \in NewHeights(m, i, s)} : s \in dirs}

Observe(x) ==
    /\ observed >= 5 /\ observed < MaxObservations
    /\ observed' = observed + 1
    /\ desired' = [i \in 1..5 |-> desired[i] + Increments[i]]
    /\ LET m0 == [hs |-> [q EXCEPT ![1] = IF x < @ THEN x ELSE @,
                                  ![5] = IF x >= @ THEN x ELSE @],
                  ns |-> [i \in 1..5 |-> IF i > Cell(x) THEN n[i] + 1 ELSE n[i]]]
       IN  \E m1 \in Adjust(m0, 2) : \E m2 \in Adjust(m1, 3) : \E m3 \in Adjust(m2, 4) :
              q' = m3.hs /\ n' = m3.ns

P2Next == \E x \in Latencies : Hold(x) \/ Observe(x)

\* The marker quantile() reports stands at the target quantile: of the
\* observations so far, its position is less than three from the one that
\* ranks QuantileNum / QuantileDen, however they fall.
QuantileOnTarget ==
    observed >= 5 =>
        LET off == Unit * n[3] - 2 * QuantileNum * (observed - 1)
        IN  -3 * Unit < off /\ off < 3 * Unit

=============================================================================
