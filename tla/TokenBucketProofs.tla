-------------------------- MODULE TokenBucketProofs --------------------------
(***************************************************************************)
(* The token-bucket guarantee for every configuration of the limiter.      *)
(*                                                                         *)
(* RateBound speaks of what was granted; it is inductive only with what is *)
(* still in the bucket and the true time of its last refill (Account).     *)
(***************************************************************************)
EXTENDS TokenBucket, TLAPS

K == Rate * Scale

\* What was granted and what is left was there at the start or was earned up to
\* the last refill.
Account(s) ==
    IF s \in known
      THEN (granted[s] + tokens[s]) * PerSec <= BurstScaled * PerSec + stamp[s] * K
      ELSE granted[s] = 0

IInv ==
    /\ TypeOK
    /\ \A s \in Subjects : /\ lastRefill[s] = stamp[s] % Word
                           /\ stamp[s] <= clock
                           /\ s \notin overtaken => Account(s)
    /\ \A c \in Callers : call[c].now <= clock

-----------------------------------------------------------------------------
(* Arithmetic *)

\* A product of naturals is monotone.
LEMMA MulMono == ASSUME NEW a \in Nat, NEW b \in Nat, NEW k \in Nat, a <= b
                 PROVE a * k <= b * k /\ a * k \in Nat
    OBVIOUS

\* Division with remainder.
LEMMA DivMod == ASSUME NEW a \in Int, NEW w \in Nat, w > 0
                PROVE /\ a = w * (a \div w) + (a % w) /\ a % w \in 0..(w - 1)
                      /\ a \div w \in Int
    OBVIOUS

\* A wrapping difference of u32 clocks never exceeds the true one.
LEMMA WrapSub == ASSUME NEW a \in Nat, NEW b \in Nat, b <= a, NEW w \in Nat, w > 0
                 PROVE /\ ((a % w) - (b % w)) % w \in Nat
                       /\ ((a % w) - (b % w)) % w <= a - b
<1> DEFINE x == (a % w) - (b % w)
           k == (a \div w) - (b \div w)
<1>1. /\ a % w \in 0..(w-1) /\ b % w \in 0..(w-1)
      /\ a = w * (a \div w) + (a % w) /\ b = w * (b \div w) + (b % w)
      /\ a \div w \in Int /\ b \div w \in Int
    BY DivMod
<1>2. x \in Int /\ k \in Int /\ a - b = w * k + x /\ -w < x /\ x < w
    BY <1>1
<1>3. /\ x = w * (x \div w) + (x % w) /\ x % w \in 0..(w-1) /\ x \div w \in Int
    BY <1>2, DivMod
<1> HIDE DEF x, k
<1>4. ASSUME x >= 0 PROVE x % w \in Nat /\ x % w <= a - b
    BY <1>2, <1>3, <1>4
<1>5. ASSUME x < 0 PROVE x % w \in Nat /\ x % w <= a - b
  <2>1. w * k > 0
      BY <1>2, <1>5
  <2>2. k >= 1
      BY <1>2, <2>1
  <2>3. w * k >= w
      BY <1>2, <2>2
  <2>4. x % w = x + w
    <3>1. x \div w <= -1
        BY <1>3, <1>5
    <3>2. x \div w >= -1
        BY <1>2, <1>3
    <3> QED
        BY <1>3, <3>1, <3>2
  <2> QED
      BY <1>2, <2>3, <2>4, <1>3
<1> QED
    BY <1>2, <1>4, <1>5 DEF x

\* The refill, in u64 and rounded down, is at most what the elapsed time earns.
LEMMA RefillBound ==
    ASSUME NEW e \in Nat, NEW f \in Nat, e <= f, BucketAssumption
    PROVE LET q == ((e * Rate * Scale) % (Word * Word)) \div PerSec
          IN  q \in Nat /\ q * PerSec <= f * K
<1> DEFINE p == e * Rate * Scale
           m == p % (Word * Word)
           q == m \div PerSec
<1>1. K \in Nat /\ PerSec \in Nat /\ PerSec > 0 /\ Word * Word \in Nat /\ Word * Word > 0
    BY DEF BucketAssumption, K
<1>2. p = e * K /\ p \in Nat
    BY DEF BucketAssumption, K
<1>3. p <= f * K
    BY <1>1, <1>2, MulMono
<1> HIDE DEF p
<1>4. m \in Nat /\ m <= p
  <2>1. p = (Word * Word) * (p \div (Word * Word)) + m /\ m \in 0..(Word * Word - 1)
        /\ p \div (Word * Word) \in Int
      BY <1>1, <1>2, DivMod
  <2> HIDE DEF m
  <2> PICK ww \in Nat : ww = Word * Word /\ ww > 0
      BY <1>1
  <2>2. p \div ww >= 0
      BY <1>2, <2>1
  <2>3. ww * (p \div ww) >= 0
      BY <2>1, <2>2
  <2> QED
      BY <1>1, <1>2, <2>1, <2>3
<1> HIDE DEF m
<1>5. q \in Nat /\ q * PerSec <= m
  <2>1. m = PerSec * q + (m % PerSec) /\ m % PerSec \in 0..(PerSec - 1) /\ q \in Int
      BY <1>1, <1>4, DivMod
  <2> HIDE DEF q
  <2>2. q >= 0
      BY <1>1, <1>4, <2>1
  <2> QED
      BY <1>1, <1>4, <2>1, <2>2
<1> QED
    BY <1>1, <1>2, <1>3, <1>4, <1>5 DEF m, p

-----------------------------------------------------------------------------
\* A fresh limiter has granted nothing.
LEMMA InitIInv == Init => IInv
<1> SUFFICES ASSUME Init PROVE IInv
    OBVIOUS
<1>1. BurstScaled \in Nat
    BY BucketAssumption DEF BucketAssumption, BurstScaled, Least
<1>2. TypeOK
    BY <1>1, BucketAssumption DEF BucketAssumption, Init, TypeOK, NoCall, NoPromise
<1>3. 0 % Word = 0
    BY BucketAssumption DEF BucketAssumption
<1> QED
    BY <1>2, <1>3 DEF Init, IInv, Account, NoCall

\* Under the entry guard: the bucket stays within the burst, and what it gains is
\* earned by the time that passed if the check is not overtaken.
LEMMA DecideStep ==
    ASSUME IInv, NEW c \in Callers, Decide(c)
    PROVE IInv'
<1> USE BucketAssumption
<1>0. /\ BurstScaled \in Nat /\ K \in Nat /\ PerSec \in Nat \ {0}
      /\ Word \in Nat /\ Word > 0 /\ Scale \in Nat
    BY DEF BucketAssumption, BurstScaled, Least, K
<1>1. /\ call[c] # NoCall
      /\ call[c] \in [now : 0..MaxMs, subject : Subjects, cost : Costs]
    BY DEF Decide, IInv, TypeOK
<1> PICK s \in Subjects, ms \in 0..MaxMs, u \in Costs :
        call[c].subject = s /\ call[c].now = ms /\ call[c].cost = u
    BY <1>1
<1> DEFINE have == AfterRefill(s, ms)
           want == u * Scale
           e == Elapsed(s, ms)
           refill == ((e * Rate * Scale) % (Word * Word)) \div PerSec
<1>2. /\ ms \in Nat /\ stamp[s] \in Nat /\ tokens[s] \in 0..BurstScaled /\ granted[s] \in Nat
      /\ clock \in Nat /\ ms <= clock /\ stamp[s] <= clock /\ want \in Nat
    BY <1>0 DEF IInv, TypeOK, BucketAssumption
<1>3. e \in 0..(Word - 1)
    BY <1>0, <1>2, DivMod DEF Elapsed, IInv, TypeOK
<1>4. stamp[s] <= ms => e <= ms - stamp[s]
    BY <1>0, <1>2, WrapSub DEF Elapsed, IInv
<1>5. refill \in Nat
    BY <1>3, RefillBound DEF BucketAssumption
<1>6. have \in 0..BurstScaled
    BY <1>0, <1>2, <1>5 DEF AfterRefill, Least
<1>7. /\ call' = [call EXCEPT ![c] = NoCall]
      /\ known' = known \cup {s} /\ clock' = clock
      /\ lastRefill' = [lastRefill EXCEPT ![s] = ms % Word]
      /\ stamp' = [stamp EXCEPT ![s] = ms]
      /\ overtaken' = IF s \in known /\ ms < stamp[s] THEN overtaken \cup {s} ELSE overtaken
    BY DEF Decide
<1>8. PICK g \in {0, want} : /\ g <= have
                             /\ tokens' = [tokens EXCEPT ![s] = have - g]
                             /\ granted' = [granted EXCEPT ![s] = @ + g]
  <2>1. CASE have < want
    <3>1. tokens' = [tokens EXCEPT ![s] = have] /\ granted' = granted
        BY <1>6, <2>1 DEF Decide
    <3>2. have - 0 = have /\ granted = [granted EXCEPT ![s] = @ + 0]
        BY <1>2, <1>6 DEF IInv, TypeOK
    <3>3. 0 <= have
        BY <1>6
    <3>4. tokens' = [tokens EXCEPT ![s] = have - 0] /\ granted' = [granted EXCEPT ![s] = @ + 0]
        BY <3>1, <3>2, Zenon
    <3> QED
        BY <3>3, <3>4, Zenon
  <2>2. CASE have >= want
      BY <1>6, <2>2 DEF Decide
  <2> QED
      BY <1>2, <1>6, <2>1, <2>2
<1>9. promise' \in [Subjects -> [cost : Nat, due : Nat]] /\ decision' \in {"allow", "deny"}
  <2>1. ASSUME NEW n \in Nat PROVE RetryAfter(n) \in Nat
    <3>1. ScaledPerMs \in Nat /\ ScaledPerMs > 0
      <4>1. (Rate * Scale) \div PerSec \in Int
          BY <1>0, DivMod DEF BucketAssumption
      <4> QED
          BY <4>1 DEF ScaledPerMs, Greatest
    <3>2. (n + ScaledPerMs - 1) \div ScaledPerMs \in Int
        BY <3>1, DivMod
    <3>3. (n + ScaledPerMs - 1) \div ScaledPerMs >= 0
        BY <3>1, <3>2, DivMod
    <3> QED
        BY <3>2, <3>3 DEF RetryAfter, Greatest, BucketAssumption
  <2>2. have < want => want - have \in Nat
      BY <1>2, <1>6
  <2> HIDE DEF have, want
  <2>3. \A p : p \in [cost : Nat, due : Nat] => [promise EXCEPT ![s] = p] \in [Subjects -> [cost : Nat, due : Nat]]
      BY DEF IInv, TypeOK
  <2>4. NoPromise \in [cost : Nat, due : Nat] /\ promise[s] \in [cost : Nat, due : Nat]
      BY DEF IInv, TypeOK, NoPromise
  <2>5. have < want => [cost |-> u, due |-> ms + RetryAfter(want - have)] \in [cost : Nat, due : Nat]
      BY <1>2, <2>1, <2>2 DEF BucketAssumption
  <2>6. decision' \in {"allow", "deny"}
      BY DEF Decide
  <2>7. \E p \in [cost : Nat, due : Nat] : promise' = [promise EXCEPT ![s] = p]
    <3>1. CASE have < want
        BY <3>1, <2>4, <2>5, <1>6 DEF Decide, have, want
    <3>2. CASE ~(have < want)
        BY <3>2, <2>4 DEF Decide, have, want
    <3> QED
        BY <3>1, <3>2
  <2> QED
      BY <2>3, <2>6, <2>7
<1>10. TypeOK'
  <2>1. ms % Word \in 0..(Word - 1)
      BY <1>0, <1>2, DivMod
  <2>2. have - g \in 0..BurstScaled /\ granted[s] + g \in Nat
    <3>1. g \in Nat /\ g <= have
        BY <1>2, <1>8
    <3> HIDE DEF have, want
    <3> QED
        BY <1>0, <1>2, <1>6, <3>1
  <2> HIDE DEF have, want
  <2> QED
      BY <1>7, <1>8, <1>9, <2>1, <2>2 DEF IInv, TypeOK
<1>11. ASSUME s \notin overtaken' PROVE Account(s)'
  <2> SUFFICES (granted[s] + have) * PerSec <= BurstScaled * PerSec + ms * K
    <3>1. granted'[s] = granted[s] + g /\ tokens'[s] = have - g /\ stamp'[s] = ms /\ s \in known'
        BY <1>7, <1>8 DEF IInv, TypeOK
    <3>2. granted'[s] + tokens'[s] = granted[s] + have
        BY <3>1, <1>2, <1>6, <1>8
    <3> QED
        BY <3>1, <3>2 DEF Account
  <2>1. CASE s \notin known
    <3>1. granted[s] = 0 /\ have = BurstScaled
        BY <2>1, <1>7, <1>11 DEF IInv, Account, AfterRefill
    <3>2. ms * K >= 0
        BY <1>0, <1>2
    <3> HIDE DEF have
    <3> QED
        BY <1>0, <3>1, <3>2
  <2>2. CASE s \in known
    <3>1. stamp[s] <= ms /\ s \notin overtaken
        BY <2>2, <1>2, <1>7, <1>11
    <3>2. refill * PerSec <= (ms - stamp[s]) * K
      <4>1. e \in Nat /\ ms - stamp[s] \in Nat /\ e <= ms - stamp[s]
          BY <1>0, <1>2, <1>3, <1>4, <3>1
      <4> HIDE DEF e
      <4> QED
          BY <4>1, RefillBound, BucketAssumption, Zenon
    <3>3. have <= tokens[s] + refill
        BY <2>2, <1>0, <1>2, <1>5 DEF AfterRefill, Least
    <3>4. (granted[s] + tokens[s]) * PerSec <= BurstScaled * PerSec + stamp[s] * K
        BY <2>2, <3>1 DEF IInv, Account
    <3> HIDE DEF have, refill
    <3>5. (granted[s] + have) * PerSec <= (granted[s] + tokens[s] + refill) * PerSec
        BY <1>0, <1>2, <1>5, <1>6, <3>3, MulMono
    <3>6. (granted[s] + tokens[s] + refill) * PerSec = (granted[s] + tokens[s]) * PerSec + refill * PerSec
        BY <1>0, <1>2, <1>5
    <3>7. (ms - stamp[s]) * K + stamp[s] * K = ms * K
        BY <1>0, <1>2
    <3>8. /\ (granted[s] + have) * PerSec \in Int /\ refill * PerSec \in Int
          /\ (granted[s] + tokens[s]) * PerSec \in Int /\ (ms - stamp[s]) * K \in Int
          /\ stamp[s] * K \in Int /\ ms * K \in Int /\ BurstScaled * PerSec \in Int
        BY <1>0, <1>2, <1>5, <1>6
    <3> QED
        BY <3>2, <3>4, <3>5, <3>6, <3>7, <3>8
  <2> QED
      BY <2>1, <2>2
<1>12. \A t \in Subjects : /\ lastRefill'[t] = stamp'[t] % Word
                           /\ stamp'[t] <= clock'
                           /\ t \notin overtaken' => Account(t)'
  <2> SUFFICES ASSUME NEW t \in Subjects, t # s
               PROVE /\ lastRefill'[t] = stamp'[t] % Word
                     /\ stamp'[t] <= clock'
                     /\ t \notin overtaken' => Account(t)'
      BY <1>2, <1>7, <1>11 DEF IInv, TypeOK
  <2>1. /\ lastRefill'[t] = lastRefill[t] /\ stamp'[t] = stamp[t] /\ (t \in known' <=> t \in known)
        /\ granted'[t] = granted[t] /\ tokens'[t] = tokens[t] /\ (t \notin overtaken' => t \notin overtaken)
      BY <1>7, <1>8 DEF IInv, TypeOK
  <2> QED
    <3>1. /\ lastRefill[t] = stamp[t] % Word /\ stamp[t] <= clock
          /\ t \notin overtaken => Account(t)
        BY DEF IInv
    <3>2. Account(t)' <=> Account(t)
        BY <2>1 DEF Account
    <3> QED
        BY <1>7, <2>1, <3>1, <3>2, Zenon
<1>13. \A d \in Callers : call'[d].now <= clock'
    BY <1>2, <1>7 DEF IInv, TypeOK, NoCall
<1> QED
    BY <1>10, <1>12, <1>13 DEF IInv

\* Every step keeps the account.
LEMMA IInvStep == IInv /\ [Next]_vars => IInv'
<1> SUFFICES ASSUME IInv, [Next]_vars PROVE IInv'
    OBVIOUS
<1>1. ASSUME UNCHANGED vars PROVE IInv'
    BY <1>1 DEF vars, bucketVars, historyVars, IInv, TypeOK, Account
<1>2. ASSUME Tick PROVE IInv'
  <2>1. /\ clock' = clock + 1 /\ clock' \in 0..MaxMs /\ clock \in Nat
        /\ UNCHANGED <<tokens, lastRefill, known, call, decision, stamp, granted, overtaken, promise>>
      BY <1>2, BucketAssumption DEF Tick, bucketVars, historyVars, IInv, TypeOK, BucketAssumption
  <2>2. TypeOK'
      BY <2>1 DEF IInv, TypeOK
  <2>3. \A s \in Subjects : stamp[s] \in Nat /\ stamp[s] <= clock + 1
      BY <2>1 DEF IInv, TypeOK
  <2>4. \A c \in Callers : call[c].now <= clock + 1
      BY <2>1, BucketAssumption DEF IInv, TypeOK, NoCall, BucketAssumption
  <2> QED
      BY <2>1, <2>2, <2>3, <2>4 DEF IInv, Account
<1>3. ASSUME NEW c \in Callers, ReadClock(c) PROVE IInv'
  <2>1. PICK s \in Subjects, u \in Costs :
            call' = [call EXCEPT ![c] = [now |-> clock, subject |-> s, cost |-> u]]
      BY <1>3 DEF ReadClock
  <2>2. UNCHANGED <<clock, tokens, lastRefill, known, decision, stamp, granted, overtaken, promise>>
      BY <1>3 DEF ReadClock, bucketVars, historyVars
  <2>3. TypeOK'
      BY <2>1, <2>2 DEF IInv, TypeOK
  <2>4. \A d \in Callers : call'[d].now <= clock
      BY <2>1, BucketAssumption DEF IInv, TypeOK, NoCall, BucketAssumption
  <2> QED
      BY <2>2, <2>3, <2>4 DEF IInv, Account
<1> QED
    BY <1>1, <1>2, <1>3, DecideStep DEF Next

\* The account is kept in every state of every execution.
THEOREM BucketInvariant == Spec => []IInv
<1>1. Init => IInv
    BY InitIInv
<1>2. IInv /\ [Next]_vars => IInv'
    BY IInvStep
<1> QED
    BY <1>1, <1>2, PTL DEF Spec

\* A bucket fits its packed representation and never holds more than the burst.
THEOREM BucketTypeCorrect == Spec => []TypeOK
    BY BucketInvariant, PTL DEF IInv

\* The token-bucket guarantee of check(), for every rate, burst, scale and clock
\* width, for subjects whose checks are not overtaken.
THEOREM BucketRateBound == Spec => []RateBound
<1>1. IInv => RateBound
  <2> SUFFICES ASSUME IInv, NEW s \in Subjects, s \notin overtaken
               PROVE granted[s] * PerSec <= BurstScaled * PerSec + clock * Rate * Scale
      BY DEF RateBound, WithinRate
  <2>1. /\ BurstScaled \in Nat /\ K \in Nat /\ PerSec \in Nat /\ Rate \in Nat /\ Scale \in Nat
        /\ granted[s] \in Nat /\ tokens[s] \in Nat /\ stamp[s] \in Nat /\ clock \in Nat
      BY BucketAssumption DEF BucketAssumption, BurstScaled, Least, K, IInv, TypeOK
  <2>2. clock * Rate * Scale = clock * K /\ clock * K \in Nat /\ BurstScaled * PerSec \in Nat
      BY <2>1 DEF K
  <2>3. CASE s \in known
    <3>1. stamp[s] * K <= clock * K /\ stamp[s] * K \in Nat
        BY <2>1, MulMono DEF IInv
    <3>2. granted[s] * PerSec <= (granted[s] + tokens[s]) * PerSec /\ granted[s] * PerSec \in Nat
        BY <2>1, MulMono
    <3>3. (granted[s] + tokens[s]) * PerSec \in Nat
        BY <2>1
    <3>4. (granted[s] + tokens[s]) * PerSec <= BurstScaled * PerSec + stamp[s] * K
        BY <2>3 DEF IInv, Account
    <3> QED
        BY <2>2, <3>1, <3>2, <3>3, <3>4
  <2>4. CASE s \notin known
    <3>1. granted[s] = 0
        BY <2>4 DEF IInv, Account
    <3> QED
        BY <2>1, <2>2, <3>1
  <2> QED
      BY <2>3, <2>4
<1> QED
    BY <1>1, BucketInvariant, PTL

=============================================================================
