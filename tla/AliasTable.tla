----------------------------- MODULE AliasTable -----------------------------
(***************************************************************************)
(* The construction of the alias table of WeightedRandomRouter             *)
(* (crates/riftgate-router/src/weighted.rs), Vose's algorithm in fixed     *)
(* point: one action per pass of its loop.  A slot of the table is an      *)
(* index of the weights, and an entry is taken with probability prob out   *)
(* of AliasScale, its alias otherwise.                                     *)
(***************************************************************************)
EXTENDS Integers, Sequences, FiniteSets, SequencesExt

CONSTANTS
    AliasScale,     \* ALIAS_SCALE
    WeightVectors   \* the sequences of positive weights tried

VARIABLES weights, scaled, small, large, table, built

aliasVars == <<weights, scaled, small, large, table, built>>

Slots == 1..Len(weights)
TotalWeight(ws) == FoldSeq(+, 0, ws)

\* p_i = weight_i * n / total, in fixed point and rounded down.
Scaled(ws) ==
    [i \in 1..Len(ws) |-> (ws[i] * Len(ws) * AliasScale) \div TotalWeight(ws)]

AliasInit ==
    /\ weights = <<>> /\ scaled = <<>> /\ small = <<>> /\ large = <<>> /\ table = <<>>
    /\ built = FALSE

\* The entry of a slot that is always its own.
Certain(i) == [alias |-> i, prob |-> AliasScale]

\* with_seed up to its loop: the slots below the scale and the others, in order.
Classify(ws) ==
    /\ weights = <<>>
    /\ weights' = ws
    /\ scaled' = Scaled(ws)
    /\ LET all == [i \in 1..Len(ws) |-> i]
       IN  /\ small' = SelectSeq(all, LAMBDA i : Scaled(ws)[i] < AliasScale)
           /\ large' = SelectSeq(all, LAMBDA i : Scaled(ws)[i] >= AliasScale)
           /\ table' = [i \in 1..Len(ws) |-> Certain(i)]
    /\ UNCHANGED built

\* What forgetting to take the filled part away would leave of a large slot.
UntouchedOf(l, s) == scaled[l]

\* new_large: what is left of large slot l once it has filled up small slot s.
LeftOf(l, s) == scaled[l] + scaled[s] - AliasScale

\* One pass of the loop: the last small slot is filled up from the last large
\* one, which is put back where what is left of it belongs.
PairUp ==
    /\ ~built /\ small # <<>> /\ large # <<>>
    /\ LET s == Last(small)
           l == Last(large)
           left == LeftOf(l, s)
       IN  /\ table' = [table EXCEPT ![s] = [alias |-> l, prob |-> scaled[s]]]
           /\ scaled' = [scaled EXCEPT ![l] = left]
           /\ small' = IF left < AliasScale THEN Append(Front(small), l) ELSE Front(small)
           /\ large' = IF left < AliasScale THEN Front(large) ELSE Append(Front(large), l)
    /\ UNCHANGED <<weights, built>>

\* The loop ends on a pair of pops of which one found nothing.  What the other
\* popped is lost to the leftovers: it keeps the entry it was given at first.
Settle ==
    /\ weights # <<>> /\ ~built /\ (small = <<>> \/ large = <<>>)
    /\ LET leftovers == IF small # <<>> THEN Front(small)
                        ELSE IF large # <<>> THEN Front(large) ELSE <<>>
       IN  table' = [i \in Slots |->
                        IF Contains(leftovers, i) THEN Certain(i) ELSE table[i]]
    /\ built' = TRUE
    /\ small' = <<>> /\ large' = <<>>
    /\ UNCHANGED <<weights, scaled>>

AliasNext ==
    \/ \E ws \in WeightVectors : Classify(ws)
    \/ PairUp
    \/ Settle

\* sample: of the n * AliasScale equally likely pairs of a bucket and a coin,
\* those that yield slot i.
Mass(i) ==
    LET own(j)   == IF j = i THEN table[j].prob ELSE 0
        other(j) == IF table[j].alias = i THEN AliasScale - table[j].prob ELSE 0
    IN  FoldSeq(+, 0, [j \in Slots |-> own(j) + other(j)])

\* The finished table draws every backend as often as its weight says, to
\* within the units that rounding down left over, whatever the order in which
\* the slots were paired.
DrawnByWeight ==
    built => \A i \in Slots :
                /\ Scaled(weights)[i] <= Mass(i)
                /\ Mass(i) <= Scaled(weights)[i] + Len(weights) - 1

=============================================================================
