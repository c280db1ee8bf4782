----------------------------- MODULE TokenBucket -----------------------------
(***************************************************************************)
(* TokenBucketLimiter (crates/riftgate-core/src/rate_limit.rs).            *)
(*                                                                         *)
(* check() reads the clock and then takes the DashMap entry of its subject. *)
(* The entry guard holds the shard's write lock until check() returns, so  *)
(* everything after it is one step and the compare_exchange never fails;   *)
(* but the clock was read before, and checks of one subject may enter in   *)
(* another order than they read the clock.                                 *)
(*                                                                         *)
(* A bucket is the packed pair [tokens_scaled | last_refill_ms], both u32; *)
(* the refill is a u64 product.  Word stands for 2^32 and PerSec for the   *)
(* 1000 ms of a second.                                                    *)
(***************************************************************************)
EXTENDS Integers

CONSTANTS
    Callers,      \* concurrent callers of check()
    Subjects,     \* SubjectKeys
    Costs,        \* the cost units asked for (1 for CostDimension::Request)
    Rate,         \* TokenBucketConfig.rate_per_sec
    Burst,        \* TokenBucketConfig.burst
    Floor,        \* TokenBucketConfig.retry_after_floor, in ms
    Scale,        \* TOKEN_BUCKET_SCALE
    PerSec,       \* ms per second
    Word,         \* 2^32
    MaxMs         \* bound on the clock

ASSUME BucketAssumption ==
    /\ Costs \subseteq Nat \ {0}
    /\ Rate \in Nat \ {0} /\ Burst \in Nat \ {0}      \* asserted by new()
    /\ Floor \in Nat
    /\ PerSec \in Nat \ {0} /\ Scale \in Nat /\ Scale >= PerSec
    /\ Word \in Nat \ {0, 1}
    /\ MaxMs \in Nat

VARIABLES
    clock,        \* ms since the limiter was built
    tokens,       \* per subject: tokens_scaled
    lastRefill,   \* per subject: last_refill_ms
    known,        \* the subjects that have an entry
    call,         \* per caller: the check it is in, between reading the clock
                  \*   (now, not yet truncated to u32) and locking the entry
    decision,     \* the last decision taken, "allow" or "deny"
    stamp,        \* history: the true time of the last refill of a subject
    granted,      \* history: scaled tokens granted to a subject
    overtaken,    \* history: the subjects checked with a clock older than stamp
    promise       \* history: per subject, the last Retry-After advice that no
                  \*   later grant has invalidated

bucketVars == <<tokens, lastRefill, known>>
historyVars == <<stamp, granted, overtaken, promise>>
vars == <<clock, bucketVars, call, decision, historyVars>>

Least(a, b) == IF a < b THEN a ELSE b
Greatest(a, b) == IF a < b THEN b ELSE a

\* saturating_scaled_burst
BurstScaled == Least(Burst * Scale, Word - 1)

NoCall == [now |-> 0, subject |-> 0, cost |-> 0]
NoPromise == [cost |-> 0, due |-> 0]

Init ==
    /\ clock = 0
    /\ tokens = [s \in Subjects |-> 0]
    /\ lastRefill = [s \in Subjects |-> 0]
    /\ known = {}
    /\ call = [c \in Callers |-> NoCall]
    /\ decision = "allow"
    /\ stamp = [s \in Subjects |-> 0]
    /\ granted = [s \in Subjects |-> 0]
    /\ overtaken = {}
    /\ promise = [s \in Subjects |-> NoPromise]

Tick ==
    /\ clock < MaxMs
    /\ clock' = clock + 1
    /\ UNCHANGED <<bucketVars, call, decision, historyVars>>

\* now_ms(), before the entry is locked.
ReadClock(c) ==
    /\ call[c] = NoCall
    /\ \E s \in Subjects, u \in Costs :
          call' = [call EXCEPT ![c] = [now |-> clock, subject |-> s, cost |-> u]]
    /\ UNCHANGED <<clock, bucketVars, decision, historyVars>>

\* now_ms.wrapping_sub(last_refill_ms), then the refill in u64.
Elapsed(s, ms) == ((ms % Word) - lastRefill[s]) % Word
RefillCeil(s, ms) ==
    IF s \in known THEN Least(tokens[s] + (Elapsed(s, ms) * Rate * Scale) \div PerSec + 1, BurstScaled)
    ELSE BurstScaled
\* A new subject starts full; a known one is refilled for the time that has
\* passed and clamped to the burst.
AfterRefill(s, ms) ==
    IF s \in known
      THEN Least(tokens[s] + ((Elapsed(s, ms) * Rate * Scale) % (Word * Word)) \div PerSec, BurstScaled)
      ELSE BurstScaled

\* retry_after_for: the deficit at the whole scaled tokens of a ms, rounded up.
ScaledPerMs == Greatest((Rate * Scale) \div PerSec, 1)
RetryAfterRoundedDown(deficit) == Greatest(deficit \div ScaledPerMs, Floor)
RetryAfter(deficit) == Greatest((deficit + ScaledPerMs - 1) \div ScaledPerMs, Floor)

\* Everything under the entry guard.
Decide(c) ==
    LET s == call[c].subject
        now == call[c].now
        have == AfterRefill(s, now)
        want == call[c].cost * Scale
        kept == IF now - stamp[s] >= Word THEN NoPromise ELSE promise[s]
    IN  /\ call[c] # NoCall
        /\ call' = [call EXCEPT ![c] = NoCall]
        /\ known' = known \cup {s}
        /\ lastRefill' = [lastRefill EXCEPT ![s] = now % Word]
        /\ stamp' = [stamp EXCEPT ![s] = now]
        /\ overtaken' = IF s \in known /\ now < stamp[s] THEN overtaken \cup {s} ELSE overtaken
        /\ \/ /\ have < want
              /\ decision' = "deny"
              /\ tokens' = [tokens EXCEPT ![s] = have]
              /\ granted' = granted
              /\ promise' = [promise EXCEPT ![s] =
                     IF kept # NoPromise \/ want > BurstScaled THEN kept
                     ELSE [cost |-> call[c].cost, due |-> now + RetryAfter(want - have)]]
           \/ /\ have >= want
              /\ decision' = "allow"
              /\ tokens' = [tokens EXCEPT ![s] = have - want]
              /\ granted' = [granted EXCEPT ![s] = @ + want]
              /\ promise' = [promise EXCEPT ![s] = NoPromise]
        /\ UNCHANGED clock

Next == Tick \/ \E c \in Callers : ReadClock(c) \/ Decide(c)

Spec == Init /\ [][Next]_vars

-----------------------------------------------------------------------------
(* Properties that hold                                                    *)

\* Type invariant: a bucket fits its two u32 halves and never exceeds the burst.
TypeOK ==
    /\ clock \in 0..MaxMs
    /\ tokens \in [Subjects -> 0..BurstScaled]
    /\ lastRefill \in [Subjects -> 0..(Word - 1)]
    /\ known \subseteq Subjects
    /\ call \in [Callers -> {NoCall} \cup [now : 0..MaxMs, subject : Subjects, cost : Costs]]
    /\ decision \in {"allow", "deny"}
    /\ stamp \in [Subjects -> 0..MaxMs]
    /\ granted \in [Subjects -> Nat]
    /\ overtaken \subseteq Subjects
    /\ promise \in [Subjects -> [cost : Nat, due : Nat]]

WithinRate(s) == granted[s] * PerSec <= BurstScaled * PerSec + clock * Rate * Scale

\* The token-bucket guarantee: as long as the checks of a subject enter its
\* entry in the order in which they read the clock, it is never granted more
\* than the burst plus what the rate has earned since the start.
RateBound == \A s \in Subjects : s \notin overtaken => WithinRate(s)

\* retry_after is honest: a denied request that fits the burst and is repeated
\* after retry_after ms, with no grant to the subject in between, is allowed,
\* even if other denied checks have refilled and rounded the bucket meanwhile.
\* (Within one turn of the u32 clock.)
RetryAfterSuffices ==
    [][\A c \in Callers :
          LET r == call[c]
              p == promise[r.subject]
          IN  /\ r # NoCall /\ call'[c] = NoCall
              /\ p # NoPromise /\ r.cost <= p.cost
              /\ r.subject \notin overtaken'
              /\ r.now >= p.due /\ r.now - stamp[r.subject] < Word
              => decision' = "allow"]_vars

-----------------------------------------------------------------------------
(* What the code's documentation says and the code does not do             *)

\* rate_limit.rs:121 "Steady-state refill rate in tokens per second." and
\* rate_limit.rs:123 "Maximum bucket depth (peak burst).": grants never exceed
\* the burst plus the rate times the time that has passed.
RateBoundAlways == \A s \in Subjects : WithinRate(s)
=============================================================================
