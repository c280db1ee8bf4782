-------------------------- MODULE HighWaterPolicy --------------------------
(***************************************************************************)
(* HighWaterPolicy (crates/riftgate-core/src/backpressure.rs): shed load   *)
(* once the queue depth reaches high_water, admit again at low_water.      *)
(* The policy is one AtomicBool; on_enqueue loads it, decides, and stores  *)
(* it when the decision changes it.                                        *)
(***************************************************************************)
EXTENDS Integers

CONSTANTS
    HighWater,   \* HighWaterPolicy.high_water
    LowWater     \* HighWaterPolicy.low_water

\* asserted by HighWaterPolicy::new
ASSUME WaterAssumption ==
    /\ HighWater \in Nat /\ LowWater \in Nat \ {0}
    /\ LowWater < HighWater

VARIABLE shedding   \* AtomicBool, FALSE: Admitting, TRUE: Shedding

PolicyInit == shedding = FALSE

ShedsAboveHighWater(seen, depth) == IF seen THEN depth > LowWater ELSE depth > HighWater
\* The new value of the flag, which is also the decision: TRUE is Reject.
NewShedding(seen, depth) == IF seen THEN depth > LowWater ELSE depth >= HighWater

=============================================================================
