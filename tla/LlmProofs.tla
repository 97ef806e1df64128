----------------------------- MODULE LlmProofs ------------------------------
(***************************************************************************)
(* Proofs about RateLimiter, for every set of providers, every limit,      *)
(* reserve, threshold and cooldown, and readings of the clock as old as    *)
(* one likes; then about ResilientLlm: the callers implement the limiter's *)
(* specification, so everything proved of the limiter holds of them, and   *)
(* they are answered in time.                                              *)
(***************************************************************************)
EXTENDS ResilientLlm, TLAPS

Bucket == [tokens : Nat, last : Nat]

\* A provider's rate and capacity are positive whatever it is configured with.
LEMMA QuotaFacts ==
  ASSUME NEW p \in Provider
  PROVE  /\ Quota(p) \in Nat
         /\ Quota(p) >= 1
         /\ Capacity(p) \in Nat
         /\ Capacity(p) = Quota(p) * Minute
BY LimiterConstants DEF Quota, Capacity, Larger

\* Refilling moves the refill time forward only, stays within capacity, and
\* earns at most the rate over the time it moved.
LEMMA RefillFacts ==
  ASSUME NEW p \in Provider, NEW b \in Bucket, NEW at \in Nat,
         b.tokens <= Capacity(p)
  PROVE  LET r == Refill(p, b, at) IN
         /\ r \in Bucket
         /\ b.tokens <= r.tokens
         /\ r.tokens <= Capacity(p)
         /\ r.tokens <= b.tokens + Quota(p) * (r.last - b.last)
         /\ b.last <= r.last
         /\ r.last \in {b.last, at}
<1>1. Quota(p) \in Nat /\ Capacity(p) \in Nat
  BY QuotaFacts
<1>2. CASE at > b.last
  <2>1. Quota(p) * (at - b.last) \in Nat
    BY <1>1, <1>2 DEF Bucket
  <2>2. QED
    BY <1>1, <1>2, <2>1 DEF Refill, Smaller, Bucket
<1>3. CASE ~(at > b.last)
  <2>1. Refill(p, b, at) = b
    BY <1>3 DEF Refill
  <2>2. Quota(p) * (b.last - b.last) = 0
    BY <1>1 DEF Bucket
  <2>3. QED
    BY <2>1, <2>2 DEF Bucket
<1>4. QED
  BY <1>2, <1>3

\* The bucket an operation finds, whether it was made before or not: sound, no
\* emptier, and credited with at most the rate since the last refill.
LEMMA BucketAtFacts ==
  ASSUME TypeOK, BucketsSound, NEW p \in Provider, NEW at \in Reading
  PROVE  LET r == BucketAt(p, at) IN
         /\ r \in Bucket
         /\ bucket[p].tokens <= r.tokens
         /\ r.tokens <= Capacity(p)
         /\ r.tokens <= bucket[p].tokens + Quota(p) * (r.last - bucket[p].last)
         /\ bucket[p].last <= r.last
         /\ r.last \in StartTime..clock
<1>1. /\ at \in Nat /\ StartTime \in Nat /\ clock \in Nat
      /\ StartTime <= at /\ at <= clock
  BY LimiterConstants DEF Reading, TypeOK
<1>2. /\ bucket[p] \in Bucket
      /\ bucket[p].tokens <= Capacity(p)
      /\ bucket[p].last \in StartTime..clock
  BY DEF TypeOK, BucketsSound, Bucket
<1>3. CASE p \in made
  <2>1. BucketAt(p, at) = Refill(p, bucket[p], at)
    BY <1>3 DEF BucketAt
  <2>2. LET r == Refill(p, bucket[p], at) IN
        /\ r \in Bucket
        /\ bucket[p].tokens <= r.tokens
        /\ r.tokens <= Capacity(p)
        /\ r.tokens <= bucket[p].tokens + Quota(p) * (r.last - bucket[p].last)
        /\ bucket[p].last <= r.last
        /\ r.last \in {bucket[p].last, at}
    BY <1>1, <1>2, RefillFacts
  <2>3. QED
    BY <1>1, <1>2, <2>1, <2>2
<1>4. CASE p \notin made
  <2>1. BucketAt(p, at) = [tokens |-> Capacity(p), last |-> at]
    BY <1>4 DEF BucketAt, FullBucket
  <2>2. bucket[p] = [tokens |-> Capacity(p), last |-> StartTime]
    BY <1>4 DEF BucketsSound, FullBucket
  <2>3. Quota(p) \in Nat /\ Capacity(p) \in Nat
    BY QuotaFacts
  <2>4. Quota(p) * (at - StartTime) \in Nat
    BY <1>1, <2>3
  <2>5. QED
    BY <1>1, <2>1, <2>2, <2>3, <2>4 DEF Bucket
<1>5. QED
  BY <1>3, <1>4

\* Every reserve is a natural number; Low's is at least Normal's.
LEMMA ReserveFacts ==
  ASSUME NEW p \in Provider
  PROVE  /\ \A pr \in Priority : Reserve(p, pr) \in Nat
         /\ Reserve(p, "Manual") = 0
         /\ Reserve(p, "Normal") <= Reserve(p, "Low")
<1> DEFINE held == Quota(p) * NormalReserve
<1>1. held \in Nat
  BY LimiterConstants, QuotaFacts
<1> HIDE DEF held
<1>2. /\ Reserve(p, "Manual") = 0
      /\ Reserve(p, "Normal") = held
      /\ Reserve(p, "Low") = 2 * held
  BY DEF Reserve, held
<1>3. QED
  BY <1>1, <1>2 DEF Priority

\* The trip and close thresholds are positive.
LEMMA ThresholdFacts ==
  TripAt \in Nat /\ TripAt >= 1 /\ CloseAt \in Nat /\ CloseAt >= 1
BY LimiterConstants DEF TripAt, CloseAt, Larger

-----------------------------------------------------------------------------
(* Type correctness *)

CircuitType == [state : CircuitState, failures : Nat, successes : Nat, openUntil : Nat]

LEMMA CircuitTypes ==
  ASSUME circuit \in CircuitType, NEW at \in Nat, NEW hint \in Nat
  PROVE  /\ AfterAllows \in CircuitType
         /\ AfterSuccess \in CircuitType
         /\ AfterRateLimit(hint, at) \in CircuitType
<1>1. Larger(hint, Cooldown) \in Nat
  BY LimiterConstants DEF Larger
<1>0. circuit.failures + 1 \in Nat /\ circuit.successes + 1 \in Nat
  BY DEF CircuitType
<1>2. AfterAllows \in CircuitType
  BY DEF AfterAllows, CircuitType, CircuitState
<1>3. AfterSuccess \in CircuitType
  <2>1. [circuit EXCEPT !.state = "Closed", !.failures = 0] \in CircuitType
    BY DEF CircuitType, CircuitState
  <2>2. [circuit EXCEPT !.state = "Closed", !.failures = 0, !.successes = 0]
          \in CircuitType
    BY DEF CircuitType, CircuitState
  <2>3. [circuit EXCEPT !.successes = circuit.successes + 1] \in CircuitType
    BY <1>0 DEF CircuitType, CircuitState
  <2>4. QED
    BY <2>1, <2>2, <2>3 DEF AfterSuccess
<1>4. AfterRateLimit(hint, at) \in CircuitType
  <2>1. [circuit EXCEPT !.failures = circuit.failures + 1] \in CircuitType
    BY <1>0 DEF CircuitType, CircuitState
  <2>2. ASSUME NEW f \in Nat, NEW u \in Nat
        PROVE  [circuit EXCEPT !.failures = f, !.state = "Open", !.openUntil = u]
                 \in CircuitType
    BY DEF CircuitType, CircuitState
  <2>3. at + Larger(hint, Cooldown) \in Nat
    BY <1>1
  <2>4. [circuit EXCEPT !.failures = circuit.failures + 1, !.state = "Open",
                        !.openUntil = at + Larger(hint, Cooldown)] \in CircuitType
    BY <1>0, <2>2, <2>3
  <2>5. QED
    BY <2>1, <2>4 DEF AfterRateLimit
<1>5. QED
  BY <1>2, <1>3, <1>4

WindowType == [since : Nat, allowance : Nat, manual : Nat, normal : Nat, low : Nat]

LEMMA FreshWindowType ==
  ASSUME NEW b \in Bucket
  PROVE  FreshWindow(b) \in WindowType
BY DEF FreshWindow, WindowType, Bucket

LEMMA CountedFacts ==
  ASSUME NEW w \in WindowType, NEW pr \in Priority
  PROVE  LET v == Counted(w, pr) IN
         /\ v \in WindowType
         /\ v.since = w.since /\ v.allowance = w.allowance
         /\ v.manual + v.normal + v.low = w.manual + w.normal + w.low + 1
BY DEF Counted, Priority, WindowType

-----------------------------------------------------------------------------
(* The inductive invariant: types, sound buckets, and the budget.  BudgetKept *)
(* alone is not inductive: a refill is only worth the rate over the time it   *)
(* moved if the bucket was made soundly and never refilled from the future.   *)

BudgetInv == TypeOK /\ BucketsSound /\ BudgetKept

\* What moves a budget forward: credit for elapsed time, then one request taken.
LEMMA BudgetArithmetic ==
  ASSUME NEW rate \in Nat, NEW unit \in Nat, NEW opened \in Nat,
         NEW since \in Nat, NEW last \in Nat, NEW now \in Nat,
         NEW held \in Nat, NEW holds \in Nat, NEW taken \in Nat,
         taken * unit + held <= opened + rate * (last - since),
         holds <= held + rate * (now - last)
  PROVE  /\ taken * unit + holds <= opened + rate * (now - since)
         /\ (taken + 1) * unit + (holds - unit) <= opened + rate * (now - since)
<1>1. rate * (last - since) + rate * (now - last) = rate * (now - since)
  OBVIOUS
<1>2. (taken + 1) * unit = taken * unit + unit
  OBVIOUS
<1>3. /\ rate * (last - since) \in Int /\ rate * (now - last) \in Int
      /\ rate * (now - since) \in Int /\ taken * unit \in Int
  OBVIOUS
<1>4. QED
  BY <1>1, <1>2, <1>3

LEMMA InitBudget == Init => BudgetInv
<1> SUFFICES ASSUME Init PROVE BudgetInv
  OBVIOUS
<1> USE DEF Init
<1>1. StartTime \in Nat
  BY LimiterConstants
<1>2. \A p \in Provider : FullBucket(p, StartTime) \in Bucket
  BY <1>1, QuotaFacts DEF FullBucket, Bucket
<1>3. TypeOK
  <2>1. circuit \in CircuitType
    BY DEF NewCircuit, CircuitType, CircuitState
  <2>2. \A p \in Provider : FreshWindow(FullBucket(p, StartTime)) \in WindowType
    BY <1>2, FreshWindowType
  <2>3. bucket \in [Provider -> Bucket] /\ window \in [Provider -> WindowType]
    BY <1>2, <2>2
  <2>4. clock \in Nat /\ made \subseteq Provider /\ inflight \in [Provider -> Nat]
    BY <1>1, LimiterConstants
  <2>5. QED
    BY <2>1, <2>3, <2>4 DEF TypeOK, CircuitType, Bucket, WindowType
<1>4. BucketsSound
  BY <1>1, QuotaFacts DEF BucketsSound, FullBucket, FreshWindow
<1>5. BudgetKept
  <2> SUFFICES ASSUME NEW p \in Provider
               PROVE  /\ window[p].since <= bucket[p].last
                      /\ Admitted(p) * Minute + bucket[p].tokens
                           <= window[p].allowance
                              + Quota(p) * (bucket[p].last - window[p].since)
    BY DEF BudgetKept
  <2>1. /\ bucket[p] = [tokens |-> Capacity(p), last |-> StartTime]
        /\ window[p] = [since |-> StartTime, allowance |-> Capacity(p),
                         manual |-> 0, normal |-> 0, low |-> 0]
    BY DEF FullBucket, FreshWindow
  <2>2. Admitted(p) = 0
    BY <2>1 DEF Admitted
  <2>3. Quota(p) * (StartTime - StartTime) = 0 /\ 0 * Minute = 0
    BY <1>1, QuotaFacts, LimiterConstants
  <2>4. QED
    BY <1>1, <2>1, <2>2, <2>3, QuotaFacts
<1>6. QED
  BY <1>3, <1>4, <1>5 DEF BudgetInv

\* One step that leaves every other provider alone and moves p's bucket and
\* window within the budget keeps the invariant.
LEMMA OneProviderStep ==
  ASSUME BudgetInv, NEW p \in Provider, NEW b \in Bucket, NEW w \in WindowType,
         bucket' = [bucket EXCEPT ![p] = b],
         window' = [window EXCEPT ![p] = w],
         made \subseteq made', made' \subseteq Provider, p \in made' \/ b = bucket[p],
         UNCHANGED clock,
         circuit' \in CircuitType,
         inflight' \in [Provider -> Nat],
         b.tokens <= Capacity(p), b.last \in StartTime..clock,
         w.allowance <= Capacity(p), w.since >= StartTime, w.since <= b.last,
         (w.manual + w.normal + w.low) * Minute + b.tokens
           <= w.allowance + Quota(p) * (b.last - w.since)
  PROVE  BudgetInv'
<1>1. TypeOK /\ BucketsSound /\ BudgetKept
  BY DEF BudgetInv
<1>2. \A q \in Provider : /\ bucket'[q] = IF q = p THEN b ELSE bucket[q]
                          /\ window'[q] = IF q = p THEN w ELSE window[q]
  BY <1>1 DEF TypeOK
<1>3. TypeOK'
  <2>1. bucket' \in [Provider -> Bucket] /\ window' \in [Provider -> WindowType]
    BY <1>1 DEF TypeOK, Bucket, WindowType
  <2>2. QED
    BY <1>1, <2>1 DEF TypeOK, Bucket, WindowType, CircuitType
<1>4. BucketsSound'
  <2> SUFFICES ASSUME NEW q \in Provider
               PROVE  /\ bucket'[q].tokens <= Capacity(q)
                      /\ bucket'[q].last \in StartTime..clock
                      /\ q \notin made' => bucket'[q] = FullBucket(q, StartTime)
                      /\ window'[q].allowance <= Capacity(q)
                      /\ window'[q].since >= StartTime
    BY <1>1 DEF BucketsSound
  <2>1. CASE q = p
    BY <1>1, <1>2, <2>1 DEF BucketsSound
  <2>2. CASE q # p
    BY <1>1, <1>2, <2>2 DEF BucketsSound
  <2>3. QED
    BY <2>1, <2>2
<1>5. BudgetKept'
  <2> SUFFICES ASSUME NEW q \in Provider
               PROVE  /\ window'[q].since <= bucket'[q].last
                      /\ (window'[q].manual + window'[q].normal + window'[q].low) * Minute
                           + bucket'[q].tokens
                           <= window'[q].allowance
                              + Quota(q) * (bucket'[q].last - window'[q].since)
    BY DEF BudgetKept, Admitted
  <2>1. CASE q = p
    BY <1>2, <2>1
  <2>2. CASE q # p
    BY <1>1, <1>2, <2>2 DEF BudgetKept, Admitted
  <2>3. QED
    BY <2>1, <2>2
<1>6. QED
  BY <1>3, <1>4, <1>5 DEF BudgetInv

\* The facts every step below starts from.
LEMMA ProviderFacts ==
  ASSUME BudgetInv, NEW p \in Provider
  PROVE  /\ clock \in Nat /\ StartTime \in Nat /\ StartTime <= clock
         /\ Minute \in Nat /\ Minute >= 1
         /\ circuit \in CircuitType /\ made \subseteq Provider
         /\ inflight \in [Provider -> Nat]
         /\ bucket[p] \in Bucket /\ window[p] \in WindowType
         /\ bucket[p].tokens <= Capacity(p)
         /\ bucket[p].last \in StartTime..clock
         /\ window[p].allowance <= Capacity(p)
         /\ window[p].since >= StartTime
         /\ window[p].since <= bucket[p].last
         /\ Admitted(p) \in Nat
         /\ Admitted(p) = window[p].manual + window[p].normal + window[p].low
         /\ Admitted(p) * Minute + bucket[p].tokens
              <= window[p].allowance + Quota(p) * (bucket[p].last - window[p].since)
<1>1. /\ clock \in Nat /\ StartTime \in Nat /\ StartTime <= clock
      /\ Minute \in Nat /\ Minute >= 1
      /\ circuit \in CircuitType /\ made \subseteq Provider
      /\ inflight \in [Provider -> Nat]
      /\ bucket[p] \in Bucket /\ window[p] \in WindowType
  BY LimiterConstants DEF BudgetInv, TypeOK, BucketsSound, CircuitType, Bucket, WindowType
<1>2. Admitted(p) \in Nat
  BY <1>1 DEF Admitted, WindowType
<1>3. QED
  BY <1>1, <1>2 DEF BudgetInv, BucketsSound, BudgetKept, Admitted

\* A refill at any reading keeps the budget; so does taking one request after it.
LEMMA RefillBudget ==
  ASSUME BudgetInv, NEW p \in Provider, NEW at \in Reading
  PROVE  LET r == BucketAt(p, at)
             w == window[p] IN
         /\ r \in Bucket /\ r.tokens <= Capacity(p) /\ r.last \in StartTime..clock
         /\ w.since <= r.last
         /\ Admitted(p) * Minute + r.tokens <= w.allowance + Quota(p) * (r.last - w.since)
         /\ (Admitted(p) + 1) * Minute + (r.tokens - Minute)
              <= w.allowance + Quota(p) * (r.last - w.since)
<1> DEFINE r == BucketAt(p, at)
           w == window[p]
<1>1. /\ r \in Bucket
      /\ r.tokens <= Capacity(p)
      /\ r.tokens <= bucket[p].tokens + Quota(p) * (r.last - bucket[p].last)
      /\ bucket[p].last <= r.last
      /\ r.last \in StartTime..clock
  BY BucketAtFacts DEF BudgetInv
<1>2. /\ r.tokens \in Nat /\ r.last \in Nat
      /\ bucket[p].tokens \in Nat /\ bucket[p].last \in Nat
      /\ w.allowance \in Nat /\ w.since \in Nat
  BY <1>1, ProviderFacts DEF Bucket, WindowType
<1>3. /\ Admitted(p) \in Nat /\ Minute \in Nat /\ Quota(p) \in Nat
      /\ w.since <= bucket[p].last
      /\ Admitted(p) * Minute + bucket[p].tokens
           <= w.allowance + Quota(p) * (bucket[p].last - w.since)
  BY ProviderFacts, QuotaFacts
<1> HIDE DEF r, w
<1>4. /\ Admitted(p) * Minute + r.tokens <= w.allowance + Quota(p) * (r.last - w.since)
      /\ (Admitted(p) + 1) * Minute + (r.tokens - Minute)
           <= w.allowance + Quota(p) * (r.last - w.since)
  BY <1>1, <1>2, <1>3, BudgetArithmetic
<1>5. w.since <= r.last
  BY <1>1, <1>2, <1>3
<1>6. QED
  BY <1>1, <1>4, <1>5 DEF r, w

LEMMA GrantBudget ==
  ASSUME BudgetInv, NEW p \in Provider, NEW pr \in Priority, NEW at \in Reading,
         Grant(p, pr, at)
  PROVE  BudgetInv'
<1> DEFINE r == BucketAt(p, at)
           b == [r EXCEPT !.tokens = @ - Minute]
           w == Counted(window[p], pr)
<1>1. /\ r \in Bucket /\ r.tokens <= Capacity(p) /\ r.last \in StartTime..clock
      /\ window[p].since <= r.last
      /\ (Admitted(p) + 1) * Minute + (r.tokens - Minute)
           <= window[p].allowance + Quota(p) * (r.last - window[p].since)
  BY RefillBudget
<1>2. r.tokens >= Minute + Reserve(p, pr) /\ Reserve(p, pr) \in Nat
  BY ReserveFacts DEF Grant, HasTokens, Price
<1>3. /\ Minute \in Nat /\ window[p] \in WindowType /\ circuit \in CircuitType
      /\ inflight \in [Provider -> Nat] /\ made \subseteq Provider
      /\ window[p].allowance <= Capacity(p) /\ window[p].since >= StartTime
      /\ Admitted(p) = window[p].manual + window[p].normal + window[p].low
      /\ Capacity(p) \in Nat
  BY ProviderFacts, QuotaFacts
<1>4. /\ b \in Bucket /\ b.tokens = r.tokens - Minute /\ b.last = r.last
      /\ b.tokens <= Capacity(p)
  BY <1>1, <1>2, <1>3 DEF Bucket
<1>5. /\ w \in WindowType
      /\ w.since = window[p].since /\ w.allowance = window[p].allowance
      /\ w.manual + w.normal + w.low = Admitted(p) + 1
  BY <1>3, CountedFacts
<1>6. /\ bucket' = [bucket EXCEPT ![p] = b]
      /\ window' = [window EXCEPT ![p] = w]
      /\ made \subseteq made' /\ made' \subseteq Provider /\ p \in made'
      /\ UNCHANGED clock
      /\ inflight' \in [Provider -> Nat]
  BY <1>3 DEF Grant
<1>7. circuit' \in CircuitType
  <2>1. AfterAllows \in CircuitType
    BY <1>3, CircuitTypes
  <2>2. QED
    BY <2>1 DEF Grant
<1> HIDE DEF r, b, w
<1>8. QED
  BY <1>1, <1>3, <1>4, <1>5, <1>6, <1>7, OneProviderStep

LEMMA RefuseBudget ==
  ASSUME BudgetInv, NEW p \in Provider, NEW pr \in Priority, NEW at \in Reading,
         RefuseForTokens(p, pr, at)
  PROVE  BudgetInv'
<1> DEFINE r == BucketAt(p, at)
           w == window[p]
<1>1. /\ r \in Bucket /\ r.tokens <= Capacity(p) /\ r.last \in StartTime..clock
      /\ w.since <= r.last
      /\ Admitted(p) * Minute + r.tokens <= w.allowance + Quota(p) * (r.last - w.since)
  BY RefillBudget
<1>2. /\ w \in WindowType /\ circuit \in CircuitType
      /\ inflight \in [Provider -> Nat] /\ made \subseteq Provider
      /\ w.allowance <= Capacity(p) /\ w.since >= StartTime
      /\ Admitted(p) = w.manual + w.normal + w.low
  BY ProviderFacts
<1>3. /\ bucket' = [bucket EXCEPT ![p] = r]
      /\ window' = [window EXCEPT ![p] = w]
      /\ made \subseteq made' /\ made' \subseteq Provider /\ p \in made'
      /\ UNCHANGED clock
      /\ inflight' \in [Provider -> Nat]
  BY <1>2 DEF RefuseForTokens, BudgetInv, TypeOK
<1>4. circuit' \in CircuitType
  <2>1. AfterAllows \in CircuitType
    BY <1>2, CircuitTypes
  <2>2. QED
    BY <2>1 DEF RefuseForTokens
<1> HIDE DEF r, w
<1>5. QED
  BY <1>1, <1>2, <1>3, <1>4, OneProviderStep

\* A fresh window spends exactly what the bucket holds.
LEMMA FreshWindowFacts ==
  ASSUME NEW p \in Provider, NEW b \in Bucket
  PROVE  LET w == FreshWindow(b) IN
         /\ w \in WindowType /\ w.since = b.last /\ w.allowance = b.tokens
         /\ w.manual = 0 /\ w.normal = 0 /\ w.low = 0
         /\ (w.manual + w.normal + w.low) * Minute + b.tokens
              <= w.allowance + Quota(p) * (b.last - w.since)
<1> DEFINE w == FreshWindow(b)
<1>1. /\ w \in WindowType /\ w.since = b.last /\ w.allowance = b.tokens
      /\ w.manual = 0 /\ w.normal = 0 /\ w.low = 0
  BY FreshWindowType DEF FreshWindow
<1>2. /\ b.tokens \in Nat /\ b.last \in Nat
      /\ Minute \in Nat /\ Quota(p) \in Nat
  BY LimiterConstants, QuotaFacts DEF Bucket
<1> HIDE DEF w
<1>3. 0 * Minute = 0 /\ Quota(p) * (b.last - b.last) = 0
  BY <1>2
<1>4. (w.manual + w.normal + w.low) * Minute = 0
  BY <1>1, <1>3
<1>5. (w.manual + w.normal + w.low) * Minute + b.tokens
        <= w.allowance + Quota(p) * (b.last - w.since)
  BY <1>1, <1>2, <1>3, <1>4
<1>6. QED
  BY <1>1, <1>5 DEF w

LEMMA RateLimitBudget ==
  ASSUME BudgetInv, NEW p \in Provider, NEW hint \in Hint, NEW at \in Reading,
         RecordRateLimit(p, hint, at)
  PROVE  BudgetInv'
<1> DEFINE r == Refill(p, bucket[p], at)
           b == IF p \in made THEN [r EXCEPT !.tokens = 0] ELSE bucket[p]
           w == IF p \in made THEN FreshWindow(b) ELSE window[p]
<1>1. /\ at \in Nat /\ hint \in Nat
  BY LimiterConstants, ProviderFacts DEF Reading
<1>2. /\ circuit \in CircuitType
      /\ inflight \in [Provider -> Nat] /\ made \subseteq Provider
      /\ bucket \in [Provider -> Bucket] /\ window \in [Provider -> WindowType]
      /\ Capacity(p) \in Nat
  BY ProviderFacts, QuotaFacts DEF BudgetInv, TypeOK, Bucket, WindowType
<1>3. circuit' \in CircuitType
  <2>1. AfterRateLimit(hint, at) \in CircuitType
    BY <1>1, <1>2, CircuitTypes
  <2>2. QED
    BY <2>1 DEF RecordRateLimit
<1>4. /\ bucket' = [bucket EXCEPT ![p] = b]
      /\ window' = [window EXCEPT ![p] = w]
      /\ made' = made
      /\ UNCHANGED clock
  BY <1>2 DEF RecordRateLimit
<1>5. inflight' \in [Provider -> Nat]
  BY <1>2 DEF RecordRateLimit
<1>6. CASE p \in made
  <2>1. r \in Bucket /\ r.last \in StartTime..clock
    BY <1>6, RefillBudget DEF BucketAt
  <2>2. b \in Bucket /\ b.tokens = 0 /\ b.last = r.last
    BY <1>6, <2>1 DEF Bucket
  <2>3. w = FreshWindow(b)
    BY <1>6
  <2> HIDE DEF r, b, w
  <2>4. /\ w \in WindowType /\ w.since = b.last /\ w.allowance = 0
        /\ (w.manual + w.normal + w.low) * Minute + b.tokens
             <= w.allowance + Quota(p) * (b.last - w.since)
    BY <2>2, <2>3, FreshWindowFacts
  <2>5. b.last \in StartTime..clock /\ w.since >= StartTime /\ w.since <= b.last
    BY <2>1, <2>2, <2>4, ProviderFacts
  <2>6. w.allowance <= Capacity(p) /\ b.tokens <= Capacity(p)
    BY <1>2, <2>2, <2>4
  <2>7. QED
    BY <1>2, <1>3, <1>4, <1>5, <1>6, <2>2, <2>4, <2>5, <2>6, OneProviderStep
<1>7. CASE p \notin made
  <2>1. b = bucket[p] /\ w = window[p]
    BY <1>7
  <2> HIDE DEF r, b, w
  <2>2. QED
    BY <1>2, <1>3, <1>4, <1>5, <2>1, ProviderFacts, OneProviderStep
<1>8. QED
  BY <1>6, <1>7

LEMMA OpenWindowBudget ==
  ASSUME BudgetInv, NEW p \in Provider, OpenWindow(p)
  PROVE  BudgetInv'
<1> DEFINE b == bucket[p]
           w == FreshWindow(b)
<1>1. /\ b \in Bucket /\ b.tokens <= Capacity(p) /\ b.last \in StartTime..clock
      /\ StartTime \in Nat /\ clock \in Nat
      /\ circuit \in CircuitType /\ inflight \in [Provider -> Nat]
      /\ made \subseteq Provider
  BY ProviderFacts
<1>2. /\ bucket' = [bucket EXCEPT ![p] = b]
      /\ window' = [window EXCEPT ![p] = w]
      /\ UNCHANGED <<clock, circuit, made, inflight>>
  BY DEF OpenWindow, BudgetInv, TypeOK
<1> HIDE DEF w
<1>3. /\ w \in WindowType /\ w.since = b.last /\ w.allowance = b.tokens
      /\ (w.manual + w.normal + w.low) * Minute + b.tokens
           <= w.allowance + Quota(p) * (b.last - w.since)
  BY <1>1, FreshWindowFacts DEF w
<1>4. w.allowance <= Capacity(p) /\ w.since >= StartTime /\ w.since <= b.last
  BY <1>1, <1>3 DEF Bucket
<1> HIDE DEF b
<1>5. BudgetInv'
  BY <1>1, <1>2, <1>3, <1>4, OneProviderStep DEF b
<1>6. QED
  BY <1>5

\* Steps that leave the buckets and the windows alone.
LEMMA OtherStepsBudget ==
  ASSUME BudgetInv, UNCHANGED <<made, bucket, window>>,
         clock' \in Nat, clock <= clock',
         circuit' \in CircuitType, inflight' \in [Provider -> Nat]
  PROVE  BudgetInv'
<1>1. TypeOK'
  BY DEF BudgetInv, TypeOK, CircuitType
<1>2. BucketsSound'
  <2>1. clock \in Nat /\ StartTime \in Nat
    BY LimiterConstants DEF BudgetInv, TypeOK
  <2>2. QED
    BY <2>1 DEF BudgetInv, BucketsSound, FullBucket
<1>3. BudgetKept'
  BY DEF BudgetInv, BudgetKept, Admitted
<1>4. QED
  BY <1>1, <1>2, <1>3 DEF BudgetInv

LEMMA NextBudget == BudgetInv /\ [Next]_limiterVars => BudgetInv'
<1> SUFFICES ASSUME BudgetInv, [Next]_limiterVars
             PROVE  BudgetInv'
  OBVIOUS
<1>0. /\ clock \in Nat /\ circuit \in CircuitType /\ inflight \in [Provider -> Nat]
  BY DEF BudgetInv, TypeOK, CircuitType
<1>1. CASE Tick
  BY <1>0, <1>1, OtherStepsBudget DEF Tick
<1>2. ASSUME NEW at \in Reading, RefuseForCircuit(at)
      PROVE  BudgetInv'
  BY <1>0, <1>2, OtherStepsBudget DEF RefuseForCircuit, limiterVars
<1>3. ASSUME NEW p \in Provider, RecordSuccess(p)
      PROVE  BudgetInv'
  <2>1. AfterSuccess \in CircuitType
    BY <1>0, CircuitTypes
  <2>2. inflight' \in [Provider -> Nat]
    BY <1>0, <1>3 DEF RecordSuccess
  <2>3. QED
    BY <1>0, <1>3, <2>1, <2>2, OtherStepsBudget DEF RecordSuccess
<1>4. ASSUME NEW p \in Provider, DropCall(p)
      PROVE  BudgetInv'
  <2>1. inflight' \in [Provider -> Nat]
    BY <1>0, <1>4 DEF DropCall
  <2>2. QED
    BY <1>0, <1>4, <2>1, OtherStepsBudget DEF DropCall
<1>5. ASSUME NEW p \in Provider, OpenWindow(p)
      PROVE  BudgetInv'
  BY <1>5, OpenWindowBudget
<1>6. ASSUME NEW p \in Provider, NEW at \in Reading, NEW pr \in Priority,
             Grant(p, pr, at) \/ RefuseForTokens(p, pr, at)
      PROVE  BudgetInv'
  BY <1>6, GrantBudget, RefuseBudget
<1>7. ASSUME NEW p \in Provider, NEW at \in Reading, NEW hint \in Hint,
             RecordRateLimit(p, hint, at)
      PROVE  BudgetInv'
  BY <1>7, RateLimitBudget
<1>8. CASE UNCHANGED limiterVars
  BY <1>0, <1>8, OtherStepsBudget DEF limiterVars
<1>9. QED
  BY <1>1, <1>2, <1>3, <1>4, <1>5, <1>6, <1>7, <1>8 DEF Next

\* The inductive invariant holds in every reachable state.
THEOREM BudgetInvariant == Spec => []BudgetInv
<1>1. Init => BudgetInv
  BY InitBudget
<1>2. BudgetInv /\ [Next]_limiterVars => BudgetInv'
  BY NextBudget
<1>3. QED
  BY <1>1, <1>2, PTL DEF Spec

\* Every reachable state is well typed (limiter.rs, ratelimit.rs).
THEOREM TypeCorrect == Spec => []TypeOK
<1>1. BudgetInv => TypeOK
  BY DEF BudgetInv
<1>2. QED
  BY <1>1, BudgetInvariant, PTL

\* No bucket exceeds its capacity or is refilled from the future (TokenBucket::refill).
THEOREM BucketsAreSound == Spec => []BucketsSound
<1>1. BudgetInv => BucketsSound
  BY DEF BudgetInv
<1>2. QED
  BY <1>1, BudgetInvariant, PTL

\* However callers interleave and however stale their readings, no window of any
\* provider admits more than its allowance plus the rate (GlobalRateLimiter).
THEOREM BudgetIsKept == Spec => []BudgetKept
<1>1. BudgetInv => BudgetKept
  BY DEF BudgetInv
<1>2. QED
  BY <1>1, BudgetInvariant, PTL

-----------------------------------------------------------------------------
(* The circuit *)

\* The circuit is closed exactly while failures are short of the threshold
\* (CircuitBreaker): inductive together with its type.
THEOREM BreakerIsCoherent == Spec => []BreakerCoherent
<1>1. Init => BreakerCoherent
  BY ThresholdFacts DEF Init, NewCircuit, BreakerCoherent
<1>2. TypeOK /\ BreakerCoherent /\ [Next]_limiterVars => BreakerCoherent'
  <2> SUFFICES ASSUME TypeOK, BreakerCoherent, [Next]_limiterVars
               PROVE  BreakerCoherent'
    OBVIOUS
  <2>0. /\ circuit \in CircuitType
        /\ circuit.failures \in Nat /\ circuit.successes \in Nat
        /\ circuit.state \in CircuitState
    BY DEF TypeOK, CircuitType
  <2> USE ThresholdFacts, <2>0
  <2>1. CASE circuit' = circuit
    BY <2>1 DEF BreakerCoherent
  <2>2. CASE circuit' = AfterAllows
    BY <2>2 DEF BreakerCoherent, AfterAllows, CircuitType
  <2>3. CASE circuit' = AfterSuccess
    BY <2>3 DEF BreakerCoherent, AfterSuccess, CircuitType, CircuitState
  <2>4. ASSUME NEW hint, NEW at, circuit' = AfterRateLimit(hint, at)
        PROVE  BreakerCoherent'
    BY <2>4 DEF BreakerCoherent, AfterRateLimit, CircuitType, CircuitState
  <2>5. \/ circuit' = circuit
        \/ circuit' = AfterAllows
        \/ circuit' = AfterSuccess
        \/ \E hint, at : circuit' = AfterRateLimit(hint, at)
    BY DEF Next, limiterVars, Tick, RefuseForCircuit, RecordSuccess, DropCall,
           OpenWindow, Grant, RefuseForTokens, RecordRateLimit
  <2>6. QED
    BY <2>1, <2>2, <2>3, <2>4, <2>5
<1>3. QED
  BY <1>1, <1>2, TypeCorrect, PTL DEF Spec

-----------------------------------------------------------------------------
(* Priority headroom *)

LEMMA ProductFacts ==
  ASSUME NEW n \in Nat, NEW k \in Nat
  PROVE  n * k \in Nat /\ n * (k + 1) = n * k + n
OBVIOUS

\* A step that grants p's token out of a bucket holding the price.
LEMMA GrantHeadroom ==
  ASSUME BudgetInv, NEW p \in Provider, Headroom(p),
         NEW pr \in Priority, NEW at \in Reading, Grant(p, pr, at)
  PROVE  Headroom(p)'
<1> DEFINE r == BucketAt(p, at)
           w == window[p]
           held == bucket[p].tokens
           resN == Reserve(p, "Normal")
           resL == Reserve(p, "Low")
<1>1. /\ w \in WindowType /\ bucket[p] \in Bucket /\ Minute \in Nat
      /\ resN \in Nat /\ resL \in Nat /\ resN <= resL
  BY ProviderFacts, ReserveFacts DEF Priority
<1>2. r \in Bucket /\ held <= r.tokens
  BY BucketAtFacts DEF BudgetInv
<1>3. r.tokens >= Minute + Reserve(p, pr)
  BY DEF Grant, HasTokens, Price
<1>4. /\ bucket'[p].tokens = r.tokens - Minute
      /\ window'[p] = Counted(w, pr)
  BY <1>1, <1>2 DEF Grant, BudgetInv, TypeOK, Bucket
<1>5. /\ held + Minute * w.manual >= Smaller(w.allowance, resN)
      /\ held + Minute * (w.manual + w.normal) >= Smaller(w.allowance, resL)
  BY DEF Headroom
<1>6. /\ w.manual \in Nat /\ w.normal \in Nat /\ w.manual + w.normal \in Nat
      /\ w.allowance \in Nat /\ held \in Nat /\ r.tokens \in Nat
  BY <1>1, <1>2 DEF WindowType, Bucket
<1>7. /\ Minute * w.manual \in Nat
      /\ Minute * (w.manual + w.normal) \in Nat
      /\ Minute * (w.manual + 1) = Minute * w.manual + Minute
      /\ Minute * (w.manual + w.normal + 1) = Minute * (w.manual + w.normal) + Minute
  BY <1>1, <1>6, ProductFacts
<1>8. /\ Smaller(w.allowance, resN) \in Nat /\ Smaller(w.allowance, resN) <= resN
      /\ Smaller(w.allowance, resL) \in Nat /\ Smaller(w.allowance, resL) <= resL
  BY <1>1, <1>6 DEF Smaller
<1>9. SUFFICES
        LET v == window'[p] IN
        /\ r.tokens - Minute + Minute * v.manual >= Smaller(v.allowance, resN)
        /\ r.tokens - Minute + Minute * (v.manual + v.normal) >= Smaller(v.allowance, resL)
  BY <1>4 DEF Headroom, Reserve
<1>10. CASE pr = "Manual"
  <2>1. window'[p] = [w EXCEPT !.manual = w.manual + 1]
    BY <1>4, <1>10 DEF Counted
  <2>2. LET v == window'[p] IN
        v.manual = w.manual + 1 /\ v.normal = w.normal /\ v.allowance = w.allowance
    BY <1>1, <2>1 DEF WindowType
  <2> HIDE DEF r, w, held, resN, resL
  <2>3. (w.manual + 1) + w.normal = w.manual + w.normal + 1
    BY <1>6
  <2>4. QED
    BY <1>1, <1>2, <1>5, <1>6, <1>7, <1>8, <2>2, <2>3
<1>11. CASE pr = "Normal"
  <2>1. window'[p] = [w EXCEPT !.normal = w.normal + 1]
    BY <1>4, <1>11 DEF Counted
  <2>2. LET v == window'[p] IN
        v.manual = w.manual /\ v.normal = w.normal + 1 /\ v.allowance = w.allowance
    BY <1>1, <2>1 DEF WindowType
  <2>3. r.tokens >= Minute + resN
    BY <1>3, <1>11
  <2> HIDE DEF r, w, held, resN, resL
  <2>4. w.manual + (w.normal + 1) = w.manual + w.normal + 1
    BY <1>6
  <2>5. QED
    BY <1>1, <1>2, <1>5, <1>6, <1>7, <1>8, <2>2, <2>3, <2>4
<1>12. CASE pr = "Low"
  <2>1. window'[p] = [w EXCEPT !.low = w.low + 1]
    BY <1>4, <1>12 DEF Counted
  <2>2. LET v == window'[p] IN
        v.manual = w.manual /\ v.normal = w.normal /\ v.allowance = w.allowance
    BY <1>1, <2>1 DEF WindowType
  <2>3. r.tokens >= Minute + resL
    BY <1>3, <1>12
  <2> HIDE DEF r, w, held, resN, resL
  <2>4. QED
    BY <1>1, <1>2, <1>6, <1>7, <1>8, <2>2, <2>3
<1>13. QED
  BY <1>10, <1>11, <1>12 DEF Priority

\* A window just opened owes nothing.
LEMMA FreshHeadroom ==
  ASSUME NEW p \in Provider, NEW b \in Bucket,
         bucket'[p] = b, window'[p] = FreshWindow(b)
  PROVE  Headroom(p)'
<1>1. /\ window'[p].allowance = b.tokens
      /\ window'[p].manual = 0 /\ window'[p].normal = 0
  BY DEF FreshWindow
<1>2. b.tokens \in Nat /\ Minute \in Nat /\ Minute * 0 = 0
  BY LimiterConstants DEF Bucket
<1>3. Reserve(p, "Normal") \in Nat /\ Reserve(p, "Low") \in Nat
  BY ReserveFacts DEF Priority
<1>4. /\ b.tokens + Minute * 0 >= Smaller(b.tokens, Reserve(p, "Normal"))
      /\ b.tokens + Minute * (0 + 0) >= Smaller(b.tokens, Reserve(p, "Low"))
  BY <1>2, <1>3 DEF Smaller
<1>5. QED
  BY <1>1, <1>4 DEF Headroom, Reserve

\* A window that stays as it is keeps its headroom while the bucket only gains.
LEMMA GainHeadroom ==
  ASSUME BudgetInv, NEW p \in Provider, Headroom(p),
         window'[p] = window[p],
         bucket'[p].tokens \in Nat, bucket[p].tokens <= bucket'[p].tokens
  PROVE  Headroom(p)'
<1>1. /\ window[p] \in WindowType /\ bucket[p] \in Bucket /\ Minute \in Nat
      /\ Reserve(p, "Normal") \in Nat /\ Reserve(p, "Low") \in Nat
  BY ProviderFacts, ReserveFacts DEF Priority
<1>2. /\ window[p].manual \in Nat /\ window[p].manual + window[p].normal \in Nat
      /\ window[p].allowance \in Nat /\ bucket[p].tokens \in Nat
  BY <1>1 DEF WindowType, Bucket
<1>3. /\ Minute * window[p].manual \in Nat
      /\ Minute * (window[p].manual + window[p].normal) \in Nat
  BY <1>1, <1>2, ProductFacts
<1>4. /\ Smaller(window[p].allowance, Reserve(p, "Normal")) \in Nat
      /\ Smaller(window[p].allowance, Reserve(p, "Low")) \in Nat
  BY <1>1, <1>2 DEF Smaller
<1>5. /\ bucket'[p].tokens + Minute * window[p].manual
           >= Smaller(window[p].allowance, Reserve(p, "Normal"))
      /\ bucket'[p].tokens + Minute * (window[p].manual + window[p].normal)
           >= Smaller(window[p].allowance, Reserve(p, "Low"))
  BY <1>2, <1>3, <1>4 DEF Headroom
<1>6. QED
  BY <1>5 DEF Headroom, Reserve

LEMMA NextHeadroom ==
  ASSUME BudgetInv, BudgetInv', HeadroomKept, [Next]_limiterVars
  PROVE  HeadroomKept'
<1> SUFFICES ASSUME NEW q \in Provider PROVE Headroom(q)'
  BY DEF HeadroomKept
<1>0. /\ Headroom(q)
      /\ bucket \in [Provider -> Bucket] /\ window \in [Provider -> WindowType]
      /\ bucket'[q] \in Bucket
      /\ bucket[q].tokens \in Nat /\ bucket'[q].tokens \in Nat
  BY DEF HeadroomKept, BudgetInv, TypeOK, Bucket, WindowType
<1>1. CASE bucket'[q] = bucket[q] /\ window'[q] = window[q]
  BY <1>0, <1>1, GainHeadroom
<1>2. ASSUME NEW pr \in Priority, NEW at \in Reading, Grant(q, pr, at)
      PROVE  Headroom(q)'
  BY <1>0, <1>2, GrantHeadroom
<1>3. ASSUME NEW pr \in Priority, NEW at \in Reading, RefuseForTokens(q, pr, at)
      PROVE  Headroom(q)'
  <2>1. bucket'[q] = BucketAt(q, at) /\ window'[q] = window[q]
    BY <1>0, <1>3 DEF RefuseForTokens
  <2>2. bucket[q].tokens <= BucketAt(q, at).tokens
    BY BucketAtFacts DEF BudgetInv
  <2>3. QED
    BY <1>0, <2>1, <2>2, GainHeadroom
<1>4. ASSUME NEW at \in Reading, NEW hint \in Hint, RecordRateLimit(q, hint, at), q \in made
      PROVE  Headroom(q)'
  <2>1. window'[q] = FreshWindow(bucket'[q])
    BY <1>0, <1>4 DEF RecordRateLimit
  <2>2. QED
    BY <1>0, <2>1, FreshHeadroom
<1>5. CASE OpenWindow(q)
  <2>1. window'[q] = FreshWindow(bucket'[q])
    BY <1>0, <1>5 DEF OpenWindow
  <2>2. QED
    BY <1>0, <2>1, FreshHeadroom
<1>6. ASSUME NEW p \in Provider, p # q, NEW at \in Reading,
             \/ \E pr \in Priority : Grant(p, pr, at) \/ RefuseForTokens(p, pr, at)
             \/ \E hint \in Hint : RecordRateLimit(p, hint, at)
             \/ OpenWindow(p)
      PROVE  bucket'[q] = bucket[q] /\ window'[q] = window[q]
  BY <1>0, <1>6 DEF Grant, RefuseForTokens, RecordRateLimit, OpenWindow
<1>7. ASSUME NEW at, NEW hint, RecordRateLimit(q, hint, at), q \notin made
      PROVE  bucket'[q] = bucket[q] /\ window'[q] = window[q]
  BY <1>7 DEF RecordRateLimit
<1>8. ASSUME NEW p \in Provider,
             \/ UNCHANGED limiterVars \/ Tick \/ RecordSuccess(p) \/ DropCall(p)
             \/ \E at \in Reading : RefuseForCircuit(at)
      PROVE  bucket'[q] = bucket[q] /\ window'[q] = window[q]
  BY <1>8 DEF limiterVars, Tick, RecordSuccess, DropCall, RefuseForCircuit
<1>9. StartTime \in Reading
  BY ProviderFacts DEF Reading
<1>10. QED
  BY <1>1, <1>2, <1>3, <1>4, <1>5, <1>6, <1>7, <1>8, <1>9 DEF Next

\* Background traffic never eats the headroom reserved for Normal and Manual
\* requests (try_acquire_reserving, reserve_for).
THEOREM HeadroomIsKept == Spec => []HeadroomKept
<1>1. Init => HeadroomKept
  <2> SUFFICES ASSUME Init, NEW p \in Provider PROVE Headroom(p)
    BY DEF HeadroomKept
  <2>1. /\ bucket[p] = [tokens |-> Capacity(p), last |-> StartTime]
        /\ window[p] = [since |-> StartTime, allowance |-> Capacity(p),
                         manual |-> 0, normal |-> 0, low |-> 0]
    BY DEF Init, FullBucket, FreshWindow
  <2>2. /\ Minute \in Nat /\ Minute * 0 = 0 /\ Capacity(p) \in Nat
        /\ Reserve(p, "Normal") \in Nat /\ Reserve(p, "Low") \in Nat
    BY LimiterConstants, QuotaFacts, ReserveFacts DEF Priority
  <2>3. /\ Capacity(p) + Minute * 0 >= Smaller(Capacity(p), Reserve(p, "Normal"))
        /\ Capacity(p) + Minute * (0 + 0) >= Smaller(Capacity(p), Reserve(p, "Low"))
    BY <2>2 DEF Smaller
  <2>4. QED
    BY <2>1, <2>3 DEF Headroom
<1>2. BudgetInv /\ BudgetInv' /\ HeadroomKept /\ [Next]_limiterVars => HeadroomKept'
  BY NextHeadroom
<1>3. QED
  BY <1>1, <1>2, BudgetInvariant, PTL DEF Spec

-----------------------------------------------------------------------------
(* Refinement: the limiter implements the shared budget. *)

LEMMA BudgetInit == Init => Budget!Init
<1> SUFFICES ASSUME Init PROVE Budget!Init
  OBVIOUS
<1>1. \A p \in Provider :
        /\ window[p].since = StartTime /\ window[p].allowance = Quota(p) * Minute
        /\ Admitted(p) = 0
  <2> TAKE p \in Provider
  <2>1. window[p] = [since |-> StartTime, allowance |-> Capacity(p),
                     manual |-> 0, normal |-> 0, low |-> 0]
    BY DEF Init, FullBucket, FreshWindow
  <2>2. QED
    BY <2>1, QuotaFacts DEF Admitted
<1>2. QED
  BY <1>1 DEF Init, Budget!Init

\* Admitted by the bucket, admitted by the budget.
LEMMA GrantAdmits ==
  ASSUME BudgetInv, NEW p \in Provider, NEW pr \in Priority, NEW at \in Reading,
         Grant(p, pr, at)
  PROVE  Budget!Admit(p)
<1> DEFINE r == BucketAt(p, at)
           w == window[p]
<1>1. /\ r \in Bucket /\ r.last \in StartTime..clock /\ w.since <= r.last
      /\ (Admitted(p) + 1) * Minute + (r.tokens - Minute)
           <= w.allowance + Quota(p) * (r.last - w.since)
  BY RefillBudget
<1>2. /\ r.tokens \in Nat /\ r.last \in Nat /\ w \in WindowType
      /\ w.since \in Nat /\ w.allowance \in Nat
      /\ clock \in Nat /\ r.last <= clock /\ Minute \in Nat
      /\ Quota(p) \in Nat /\ Admitted(p) \in Nat
      /\ window \in [Provider -> WindowType]
  BY <1>1, ProviderFacts, QuotaFacts
     DEF Bucket, WindowType, BudgetInv, TypeOK
<1>3. r.tokens >= Minute
  BY <1>2, ReserveFacts DEF Grant, HasTokens, Price
<1>4. Quota(p) * (r.last - w.since) <= Quota(p) * (clock - w.since)
  <2> HIDE DEF r, w
  <2>1. Quota(p) * (clock - w.since)
          = Quota(p) * (r.last - w.since) + Quota(p) * (clock - r.last)
    BY <1>2
  <2>2. Quota(p) * (clock - r.last) \in Nat
    BY <1>2
  <2>3. Quota(p) * (r.last - w.since) \in Int
    BY <1>2
  <2>4. QED
    BY <2>1, <2>2, <2>3
<1>5. (Admitted(p) + 1) * Minute <= w.allowance + Quota(p) * (clock - w.since)
  <2> HIDE DEF r, w
  <2>1. /\ (Admitted(p) + 1) * Minute \in Int
        /\ Quota(p) * (r.last - w.since) \in Int
        /\ Quota(p) * (clock - w.since) \in Int
    BY <1>2
  <2>2. QED
    BY <1>1, <1>2, <1>3, <1>4, <2>1
<1>6. window' = [window EXCEPT ![p] = Counted(window[p], pr)] /\ UNCHANGED clock
  BY DEF Grant
<1>7. LET v == Counted(w, pr) IN
      /\ v.since = w.since /\ v.allowance = w.allowance
      /\ v.manual + v.normal + v.low = w.manual + w.normal + w.low + 1
  BY <1>2, CountedFacts
<1>8. /\ \A q \in Provider : window'[q].since = window[q].since
      /\ \A q \in Provider : window'[q].allowance = window[q].allowance
      /\ \A q \in Provider : Admitted(q)' = IF q = p THEN Admitted(p) + 1 ELSE Admitted(q)
  BY <1>2, <1>6, <1>7 DEF Admitted
<1>9. QED
  BY <1>5, <1>6, <1>8 DEF Budget!Admit, Budget!Earned

\* A fresh window of the bucket is a fresh window of the budget.
LEMMA FreshOpensWindow ==
  ASSUME BudgetInv, NEW p \in Provider, NEW b \in Bucket,
         b.tokens <= Capacity(p), b.last \in StartTime..clock,
         window' = [window EXCEPT ![p] = FreshWindow(b)], UNCHANGED clock
  PROVE  Budget!OpenWindow(p)
<1>1. /\ window \in [Provider -> WindowType]
      /\ b.tokens \in 0..Quota(p) * Minute
  BY QuotaFacts DEF BudgetInv, TypeOK, WindowType, Bucket
<1>2. \A q \in Provider :
        /\ window'[q].since = IF q = p THEN b.last ELSE window[q].since
        /\ window'[q].allowance = IF q = p THEN b.tokens ELSE window[q].allowance
        /\ Admitted(q)' = IF q = p THEN 0 ELSE Admitted(q)
  BY <1>1 DEF FreshWindow, Admitted
<1>3. QED
  BY <1>1, <1>2 DEF Budget!OpenWindow

LEMMA BudgetStep == BudgetInv /\ [Next]_limiterVars => [Budget!Next]_(Budget!budgetVars)
<1> SUFFICES ASSUME BudgetInv, [Next]_limiterVars
             PROVE  Budget!Next \/ UNCHANGED Budget!budgetVars
  OBVIOUS
<1>1. CASE UNCHANGED <<clock, window>>
  <2>1. \A q \in Provider : Admitted(q)' = Admitted(q)
    BY <1>1 DEF Admitted
  <2>2. QED
    BY <1>1, <2>1 DEF Budget!budgetVars
<1>2. CASE Tick
  <2>1. \A q \in Provider : Admitted(q)' = Admitted(q)
    BY <1>2 DEF Tick, Admitted
  <2>2. Budget!Tick
    BY <1>2, <2>1 DEF Tick, Budget!Tick
  <2>3. QED
    BY <2>2 DEF Budget!Next
<1>3. ASSUME NEW p \in Provider, NEW pr \in Priority, NEW at \in Reading, Grant(p, pr, at)
      PROVE  Budget!Next
  BY <1>3, GrantAdmits DEF Budget!Next
<1>4. ASSUME NEW p \in Provider, OpenWindow(p)
      PROVE  Budget!Next
  <2>1. Budget!OpenWindow(p)
    BY <1>4, ProviderFacts, FreshOpensWindow DEF OpenWindow
  <2>2. QED
    BY <2>1 DEF Budget!Next
<1>5. ASSUME NEW p \in Provider, NEW hint \in Hint, NEW at \in Reading,
             RecordRateLimit(p, hint, at), p \in made
      PROVE  Budget!Next
  <2> DEFINE r == Refill(p, bucket[p], at)
             b == [r EXCEPT !.tokens = 0]
  <2>1. r \in Bucket /\ r.last \in StartTime..clock
    BY <1>5, RefillBudget DEF BucketAt
  <2>2. b \in Bucket /\ b.tokens <= Capacity(p) /\ b.last \in StartTime..clock
    BY <2>1, QuotaFacts DEF Bucket
  <2>3. window' = [window EXCEPT ![p] = FreshWindow(b)] /\ UNCHANGED clock
    BY <1>5 DEF RecordRateLimit
  <2> HIDE DEF b
  <2>4. Budget!OpenWindow(p)
    BY <2>2, <2>3, FreshOpensWindow
  <2>5. QED
    BY <2>4 DEF Budget!Next
<1>6. ASSUME NEW p \in Provider, NEW hint \in Hint, NEW at \in Reading,
             RecordRateLimit(p, hint, at), p \notin made
      PROVE  UNCHANGED <<clock, window>>
  BY <1>6 DEF RecordRateLimit
<1>7. QED
  <2>1. CASE UNCHANGED limiterVars
    BY <1>1, <2>1 DEF limiterVars
  <2>2. ASSUME NEW at \in Reading, RefuseForCircuit(at)
        PROVE  UNCHANGED <<clock, window>>
    BY <2>2 DEF RefuseForCircuit, limiterVars
  <2>3. ASSUME NEW p \in Provider, RecordSuccess(p) \/ DropCall(p)
        PROVE  UNCHANGED <<clock, window>>
    BY <2>3 DEF RecordSuccess, DropCall
  <2>4. ASSUME NEW p \in Provider, NEW pr \in Priority, NEW at \in Reading,
               RefuseForTokens(p, pr, at)
        PROVE  UNCHANGED <<clock, window>>
    BY <2>4 DEF RefuseForTokens
  <2>5. QED
    BY <1>1, <1>2, <1>3, <1>4, <1>5, <1>6, <2>1, <2>2, <2>3, <2>4 DEF Next

\* The limiter, with its lazily made buckets, drains, priorities, circuit and
\* stale clock readings, implements the shared budget.
THEOREM LimiterImplementsBudget == Spec => ImplementsBudget
<1>1. Init => Budget!Init
  BY BudgetInit
<1>2. BudgetInv /\ [Next]_limiterVars => [Budget!Next]_(Budget!budgetVars)
  BY BudgetStep
<1>3. QED
  BY <1>1, <1>2, BudgetInvariant, PTL DEF Spec, ImplementsBudget, Budget!Spec

-----------------------------------------------------------------------------
\* The tokens of every bucket and the counts of the breaker stay within bounds that
\* refilling, draining, tripping and recovering at any instants cannot leave.
THEOREM LimiterStaysSound == Spec => []LimiterSound
<1>1. BucketsSound /\ BreakerCoherent => LimiterSound
  BY DEF LimiterSound
<1>2. QED
  BY <1>1, BucketsAreSound, BreakerIsCoherent, PTL

-----------------------------------------------------------------------------
(* The wait told with a refusal *)

\* Rounding up is the least number of ticks that earns n.
LEMMA CeilDivIsLeast ==
  ASSUME NEW n \in Nat, n >= 1, NEW q \in Nat, q >= 1
  PROVE  /\ CeilDiv(n, q) \in Nat /\ CeilDiv(n, q) >= 1
         /\ q * CeilDiv(n, q) >= n
         /\ q * (CeilDiv(n, q) - 1) < n
<1> DEFINE k == (n + q - 1) \div q
<1>1. n + q - 1 \in Nat
  OBVIOUS
<1>2. k \in Nat /\ q * k <= n + q - 1 /\ n + q - 1 < q * (k + 1)
  <2>1. \A m \in Nat : m \div q \in Nat /\ q * (m \div q) <= m /\ m < q * ((m \div q) + 1)
    OBVIOUS
  <2>2. QED
    BY <1>1, <2>1
<1>3. CeilDiv(n, q) = k
  BY DEF CeilDiv
<1> HIDE DEF k
<1>4. q * (k + 1) = q * k + q /\ q * (k - 1) = q * k - q /\ q * k \in Nat
  BY <1>2
<1>5. k # 0
  BY <1>2, <1>4
<1>6. QED
  BY <1>2, <1>3, <1>4, <1>5

\* A bucket left alone holds what it had and what its rate earned since, up to
\* its capacity.
LEMMA RefillEarns ==
  ASSUME NEW p \in Provider, NEW b \in Bucket, b.tokens <= Capacity(p),
         NEW at \in Nat, at >= b.last
  PROVE  /\ Quota(p) * (at - b.last) \in Nat
         /\ Refill(p, b, at).tokens
              = Smaller(b.tokens + Quota(p) * (at - b.last), Capacity(p))
<1>1. Quota(p) \in Nat /\ Capacity(p) \in Nat
  BY QuotaFacts
<1>2. b.tokens \in Nat /\ b.last \in Nat
  BY DEF Bucket
<1>3. Quota(p) * (at - b.last) \in Nat
  <2>1. at - b.last \in Nat
    BY <1>2
  <2>2. QED
    BY <1>1, <2>1
<1>4. CASE at = b.last
  <2>1. Quota(p) * (at - b.last) = 0
    BY <1>1, <1>2, <1>4
  <2>2. QED
    BY <1>1, <1>2, <1>3, <1>4, <2>1 DEF Refill, Smaller
<1>5. CASE at # b.last
  BY <1>2, <1>3, <1>5 DEF Refill
<1>6. QED
  BY <1>4, <1>5

\* Where a bucket can hold the price: exact.
LEMMA FittingWaitIsExact ==
  ASSUME TypeOK, BucketsSound, NEW p \in Provider, NEW pr \in Priority,
         NEW at \in bucket[p].last..clock, Price(p, pr) <= Capacity(p)
  PROVE  /\ HasTokens(p, pr, at + BucketWait(p, pr, at))
         /\ BucketWait(p, pr, at) > 0
              => ~HasTokens(p, pr, at + BucketWait(p, pr, at) - 1)
<1> DEFINE b == bucket[p]
           q == Quota(p)
           price == Price(p, pr)
           have == BucketAt(p, at).tokens
           wait == BucketWait(p, pr, at)
<1>1. q \in Nat /\ q >= 1 /\ Capacity(p) \in Nat /\ price \in Nat /\ price <= Capacity(p)
  BY QuotaFacts, ReserveFacts, LimiterConstants DEF Price
<1>2. b \in Bucket /\ b.tokens \in Nat /\ b.last \in Nat /\ b.tokens <= Capacity(p)
  BY DEF TypeOK, BucketsSound, Bucket
<1>3. at \in Nat /\ at >= b.last
  BY <1>2 DEF TypeOK
<1>4. wait = IF have >= price THEN 0 ELSE CeilDiv(price - have, q)
  BY DEF BucketWait
<1>5. CASE have >= price
  <2>1. wait = 0 /\ at + wait = at
    BY <1>3, <1>4, <1>5
  <2>2. QED
    BY <1>5, <2>1 DEF HasTokens
<1>6. CASE ~(have >= price)
  <2>1. p \in made
    <3>1. ASSUME p \notin made PROVE have = Capacity(p)
      BY <3>1 DEF BucketAt, FullBucket
    <3>2. QED
      BY <1>1, <1>6, <3>1
  <2> DEFINE earned(x) == q * (x - b.last)
  <2>2. ASSUME NEW x \in Nat, x >= b.last
        PROVE  /\ earned(x) \in Nat
               /\ BucketAt(p, x).tokens = Smaller(b.tokens + earned(x), Capacity(p))
    BY <1>2, <2>1, <2>2, RefillEarns DEF BucketAt
  <2>3. have = b.tokens + earned(at) /\ have \in Nat
    BY <1>1, <1>2, <1>3, <1>6, <2>2 DEF Smaller
  <2>4. /\ wait \in Nat /\ wait >= 1
        /\ q * wait >= price - have /\ q * (wait - 1) < price - have
    <3>1. price - have \in Nat /\ price - have >= 1
      BY <1>1, <1>6, <2>3
    <3> HIDE DEF price, have, q
    <3>2. QED
      BY <1>1, <1>4, <1>6, <3>1, CeilDivIsLeast
  <2> HIDE DEF have, price, wait, q, b
  <2>5. earned(at + wait) = earned(at) + q * wait
    BY <1>1, <1>2, <1>3, <2>4
  <2>6. earned(at + wait - 1) = earned(at) + q * (wait - 1)
    BY <1>1, <1>2, <1>3, <2>4
  <2>7. /\ at + wait \in Nat /\ at + wait >= b.last
        /\ at + wait - 1 \in Nat /\ at + wait - 1 >= b.last
    BY <1>2, <1>3, <2>4
  <2>8. BucketAt(p, at + wait).tokens >= price
    <3>1. q * wait \in Nat
      BY <1>1, <2>4
    <3> HIDE DEF earned
    <3>2. b.tokens + earned(at + wait) = have + q * wait /\ earned(at) \in Nat
      BY <1>2, <1>3, <2>2, <2>3, <2>5, <3>1
    <3>3. have + q * wait >= price
      BY <1>1, <2>3, <2>4, <3>1
    <3>4. QED
      BY <1>1, <2>2, <2>7, <3>2, <3>3 DEF Smaller
  <2>9. BucketAt(p, at + wait - 1).tokens < price
    <3>1. q * (wait - 1) \in Nat
      BY <1>1, <2>4
    <3> HIDE DEF earned
    <3>2. b.tokens + earned(at + wait - 1) = have + q * (wait - 1) /\ earned(at) \in Nat
      BY <1>2, <1>3, <2>2, <2>3, <2>6, <3>1
    <3>3. have + q * (wait - 1) < price
      BY <1>1, <2>3, <2>4, <3>1
    <3>4. QED
      BY <1>1, <2>2, <2>3, <2>7, <3>1, <3>2, <3>3 DEF Smaller
  <2>10. BucketAt(p, at + wait - 1).tokens \in Nat
    BY <1>1, <1>2, <2>2, <2>7 DEF Smaller
  <2>11. QED
    BY <1>1, <2>8, <2>9, <2>10 DEF HasTokens, wait, price
<1>7. QED
  BY <1>5, <1>6

\* Where it cannot: no time is late enough.
LEMMA TooDearIsRefused ==
  ASSUME TypeOK, BucketsSound, NEW p \in Provider, NEW pr \in Priority,
         NEW later \in Nat, ~(Price(p, pr) <= Capacity(p))
  PROVE  ~HasTokens(p, pr, later)
<1>1. /\ bucket[p] \in Bucket /\ bucket[p].tokens <= Capacity(p)
      /\ Capacity(p) \in Nat /\ Price(p, pr) \in Nat
  BY QuotaFacts, ReserveFacts, LimiterConstants DEF TypeOK, BucketsSound, Bucket, Price
<1>2. BucketAt(p, later).tokens \in Nat /\ BucketAt(p, later).tokens <= Capacity(p)
  <2>1. CASE p \in made
    <3>1. BucketAt(p, later) = Refill(p, bucket[p], later)
      BY <2>1 DEF BucketAt
    <3>2. QED
      BY <1>1, <3>1, RefillFacts DEF Bucket
  <2>2. CASE p \notin made
    BY <1>1, <2>2 DEF BucketAt, FullBucket
  <2>3. QED
    BY <2>1, <2>2
<1>3. QED
  BY <1>1, <1>2 DEF HasTokens

LEMMA SoundMeansExact == TypeOK /\ BucketsSound => WaitIsExact
<1> SUFFICES ASSUME TypeOK, BucketsSound, NEW p \in Provider, NEW pr \in Priority,
                    NEW at \in bucket[p].last..clock
             PROVE  LET wait == BucketWait(p, pr, at) IN
                    IF Price(p, pr) <= Capacity(p)
                    THEN /\ HasTokens(p, pr, at + wait)
                         /\ wait > 0 => ~HasTokens(p, pr, at + wait - 1)
                    ELSE \A later \in at..(at + wait) : ~HasTokens(p, pr, later)
  BY DEF WaitIsExact
<1>1. CASE Price(p, pr) <= Capacity(p)
  BY <1>1, FittingWaitIsExact
<1>2. CASE ~(Price(p, pr) <= Capacity(p))
  <2>1. bucket[p].last \in Nat /\ clock \in Nat
    BY DEF TypeOK
  <2>2. \A later \in at..(at + BucketWait(p, pr, at)) : later \in Nat
    BY <2>1
  <2>3. QED
    BY <1>2, <2>2, TooDearIsRefused
<1>3. QED
  BY <1>1, <1>2

\* A refused caller that sleeps the wait it is told finds its tokens and no shorter
\* sleep would do, wherever a bucket can hold the price; where none can, it is
\* refused whenever it looks.
THEOREM WaitsAreExact == Spec => []WaitIsExact
BY SoundMeansExact, TypeCorrect, BucketsAreSound, PTL

\* Refilling at r on the way to a later time earns what one refill then would.
LEMMA RefillsAddUp ==
  ASSUME NEW p \in Provider, NEW b \in Bucket, b.tokens <= Capacity(p),
         NEW r \in Nat, NEW later \in Nat, r <= later, b.last <= later
  PROVE  Refill(p, Refill(p, b, r), later).tokens = Refill(p, b, later).tokens
<1> DEFINE c == Refill(p, b, r)
           q == Quota(p)
           cap == Capacity(p)
<1>1. /\ q \in Nat /\ cap \in Nat
      /\ b.tokens \in Nat /\ b.last \in Nat
  BY QuotaFacts DEF Bucket
<1>2. CASE ~(r > b.last)
  BY <1>2 DEF Refill
<1>3. CASE r > b.last
  <2>1. c \in Bucket /\ c.tokens <= cap
    BY RefillFacts
  <2>2. c.last = r
    BY <1>3 DEF Refill
  <2>3. /\ q * (r - b.last) \in Nat
        /\ c.tokens = Smaller(b.tokens + q * (r - b.last), cap)
    BY <1>1, <1>3, RefillEarns
  <2>4. /\ q * (later - r) \in Nat
        /\ Refill(p, c, later).tokens = Smaller(c.tokens + q * (later - r), cap)
    BY <2>1, <2>2, RefillEarns
  <2>5. /\ q * (later - b.last) \in Nat
        /\ Refill(p, b, later).tokens = Smaller(b.tokens + q * (later - b.last), cap)
    BY RefillEarns
  <2>6. q * (later - b.last) = q * (r - b.last) + q * (later - r)
    BY <1>1
  <2> HIDE DEF c, q, cap
  <2>7. QED
    BY <1>1, <2>1, <2>3, <2>4, <2>5, <2>6 DEF Smaller, c
<1>4. QED
  BY <1>2, <1>3

\* So the bucket an operation leaves refilled holds later what it would have held.
LEMMA PollingChangesNothing ==
  ASSUME TypeOK, BucketsSound, NEW p \in Provider, NEW at \in Reading,
         NEW later \in Nat, clock <= later
  PROVE  Refill(p, BucketAt(p, at), later).tokens = BucketAt(p, later).tokens
<1>1. /\ at \in Nat /\ at <= later
      /\ bucket[p] \in Bucket /\ bucket[p].tokens <= Capacity(p)
      /\ bucket[p].last <= later /\ Capacity(p) \in Nat
  BY LimiterConstants, QuotaFacts DEF TypeOK, BucketsSound, Bucket, Reading
<1>2. CASE p \in made
  BY <1>1, <1>2, RefillsAddUp DEF BucketAt
<1>3. CASE p \notin made
  <2>1. /\ FullBucket(p, at) \in Bucket /\ FullBucket(p, at).tokens <= Capacity(p)
        /\ FullBucket(p, at).tokens = Capacity(p) /\ FullBucket(p, at).last = at
    BY <1>1 DEF FullBucket, Bucket
  <2>2. /\ Quota(p) * (later - at) \in Nat
        /\ Refill(p, FullBucket(p, at), later).tokens
             = Smaller(Capacity(p) + Quota(p) * (later - at), Capacity(p))
    BY <1>1, <2>1, RefillEarns
  <2>3. QED
    BY <1>1, <1>3, <2>2 DEF BucketAt, FullBucket, Smaller
<1>4. QED
  BY <1>2, <1>3

\* A step of the limiter changes what p's bucket will hold later only by admitting
\* one of p's calls or recording what came of it.
LEMMA StepKeepsWaits ==
  ASSUME BudgetInv, [Next]_limiterVars, NEW p \in Provider, inflight'[p] = inflight[p],
         NEW later \in clock'..MaxClock
  PROVE  BucketAt(p, later).tokens' = BucketAt(p, later).tokens
<1>1. /\ TypeOK /\ BucketsSound /\ BudgetInv'
      /\ clock \in Nat /\ clock' \in Nat /\ MaxClock \in Nat
      /\ inflight \in [Provider -> Nat]
  BY NextBudget, LimiterConstants DEF BudgetInv, TypeOK
<1>2. ASSUME UNCHANGED <<made, bucket>>
      PROVE  BucketAt(p, later).tokens' = BucketAt(p, later).tokens
  BY <1>2 DEF BucketAt
<1>3. ASSUME NEW q \in Provider, NEW pr \in Priority, NEW at \in Reading, Grant(q, pr, at)
      PROVE  BucketAt(p, later).tokens' = BucketAt(p, later).tokens
  <2>1. q # p
    BY <1>1, <1>3 DEF Grant
  <2>2. bucket'[p] = bucket[p] /\ (p \in made' <=> p \in made)
    BY <1>1, <1>3, <2>1 DEF Grant, TypeOK
  <2>3. QED
    BY <2>2 DEF BucketAt
<1>4. ASSUME NEW q \in Provider, NEW pr \in Priority, NEW at \in Reading,
             RefuseForTokens(q, pr, at)
      PROVE  BucketAt(p, later).tokens' = BucketAt(p, later).tokens
  <2>1. CASE q # p
    <3>1. bucket'[p] = bucket[p] /\ (p \in made' <=> p \in made)
      BY <1>1, <1>4, <2>1 DEF RefuseForTokens, TypeOK
    <3>2. QED
      BY <3>1 DEF BucketAt
  <2>2. CASE q = p
    <3>1. p \in made' /\ bucket'[p] = BucketAt(p, at) /\ clock' = clock
      BY <1>1, <1>4, <2>2 DEF RefuseForTokens, TypeOK
    <3>2. BucketAt(p, later)' = Refill(p, bucket'[p], later)
      BY <3>1 DEF BucketAt, Refill, Quota, Capacity, Smaller, Larger
    <3>3. later \in Nat /\ clock <= later
      BY <1>1, <3>1
    <3>4. QED
      BY <1>1, <3>1, <3>2, <3>3, PollingChangesNothing
  <2>3. QED
    BY <2>1, <2>2
<1>5. ASSUME NEW q \in Provider, NEW hint \in Hint, NEW at \in Reading,
             RecordRateLimit(q, hint, at)
      PROVE  BucketAt(p, later).tokens' = BucketAt(p, later).tokens
  <2>1. q # p
    BY <1>1, <1>5 DEF RecordRateLimit
  <2>2. bucket'[p] = bucket[p] /\ made' = made
    BY <1>1, <1>5, <2>1 DEF RecordRateLimit, TypeOK
  <2>3. QED
    BY <2>2 DEF BucketAt
<1>6. CASE \/ Tick
           \/ \E at \in Reading : RefuseForCircuit(at)
           \/ \E q \in Provider : RecordSuccess(q) \/ DropCall(q) \/ OpenWindow(q)
           \/ UNCHANGED limiterVars
  BY <1>2, <1>6 DEF Tick, RefuseForCircuit, RecordSuccess, DropCall, OpenWindow, limiterVars
<1>7. QED
  BY <1>3, <1>4, <1>5, <1>6 DEF Next

\* What a caller was told to wait for stays there for it: only an admission or a
\* 429 of its own provider can change it, for any providers, rates and readings.
THEOREM WaitsStayGood == Spec => WaitStaysGood
<1>1. BudgetInv /\ [Next]_limiterVars
        => [\A p \in Provider :
              inflight'[p] = inflight[p] =>
                \A later \in clock'..MaxClock :
                  BucketAt(p, later).tokens' = BucketAt(p, later).tokens]_limiterVars
  BY StepKeepsWaits
<1>2. QED
  BY <1>1, BudgetInvariant, PTL DEF Spec, WaitStaysGood

-----------------------------------------------------------------------------
(* Any number of callers of complete() *)

Field == {"pc", "provider", "priority", "attempts", "deadline", "reading",
          "wait", "wake", "asked", "begun", "late"}

\* What a thread's locals are good for: the limiter is called with a provider,
\* a priority and a reading no later than now, and a 429 is recorded with one
\* of the hints.
FitToCall(t) ==
  /\ DOMAIN t = Field
  /\ t.provider \in Provider
  /\ t.priority \in Priority
  /\ t.pc \in {"polling", "limited"} => t.reading \in Reading
  /\ t.pc = "limited" => t.wait \in Hint

EngineInv ==
  /\ clock \in StartTime..MaxClock
  /\ thread = [c \in Caller |-> thread[c]]
  /\ \A c \in Caller : FitToCall(thread[c])

LEMMA IdleFits == FitToCall(Idle) /\ Idle.pc = "idle"
<1>1. AnyProvider \in Provider
  BY EngineConstants DEF AnyProvider
<1>2. QED
  BY <1>1 DEF FitToCall, Idle, Field, Priority

\* One thread's step preserves the invariant when its new locals are fit.
LEMMA OneThreadStep ==
  ASSUME EngineInv, NEW c \in Caller, NEW t, FitToCall(t),
         thread' = [thread EXCEPT ![c] = t], clock' = clock
  PROVE  EngineInv'
<1>1. clock' \in StartTime..MaxClock
  BY DEF EngineInv
<1>2. \A d \in Caller : thread'[d] = IF d = c THEN t ELSE thread[d]
  BY DEF EngineInv
<1>3. thread' = [d \in Caller |-> thread'[d]]
  BY DEF EngineInv
<1>4. \A s : FitToCall(s)' <=> FitToCall(s)
  BY DEF FitToCall, Reading
<1>5. ASSUME NEW d \in Caller PROVE FitToCall(thread[d])'
  BY <1>2, <1>4 DEF EngineInv
<1>6. QED
  BY <1>1, <1>3, <1>5 DEF EngineInv

LEMMA EngineInitInv == EngineInit => EngineInv
<1> SUFFICES ASSUME EngineInit PROVE EngineInv
  OBVIOUS
<1>1. clock \in StartTime..MaxClock
  BY LimiterConstants DEF EngineInit, Init
<1>2. QED
  BY <1>1, IdleFits DEF EngineInit, EngineInv

\* A failure leaves the thread idle, or backing off with its call unchanged.
LEMMA AfterFailureFits ==
  ASSUME NEW t, FitToCall(t), NEW hint
  PROVE  FitToCall(AfterFailure(t, hint))
<1>1. CASE GivesUp(t.attempts + 1)
  BY <1>1, IdleFits DEF AfterFailure
<1>2. CASE ~GivesUp(t.attempts + 1)
  <2> DEFINE failed == t.attempts + 1
             wake == clock + RetryDelay(failed, hint)
  <2>1. AfterFailure(t, hint) =
          [t EXCEPT !.pc = "backoff", !.attempts = failed, !.wait = 0, !.reading = 0,
                    !.wake = wake]
    BY <1>2 DEF AfterFailure
  <2> HIDE DEF failed, wake
  <2>2. QED
    BY <2>1 DEF FitToCall, Field
<1>3. QED
  BY <1>1, <1>2

LEMMA AskedFits ==
  ASSUME NEW t, FitToCall(t), t.pc = "calling", NEW h
  PROVE  FitToCall(Asked(t, h)) /\ Asked(t, h).pc = "calling"
<1> DEFINE asked == clock + (IF h.kind = "after" THEN h.value ELSE 0)
<1>1. Asked(t, h) = [t EXCEPT !.asked = asked]
  BY DEF Asked
<1> HIDE DEF asked
<1>2. QED
  BY <1>1 DEF FitToCall, Field

\* What a step must do: keep the invariant, and use the limiter as Next does.
Sound == EngineInv' /\ [Next]_limiterVars

\* Entering acquire() fixes a deadline and leaves the call as it was.
LEMMA AcquiringFits ==
  ASSUME NEW t, DOMAIN t = Field, t.provider \in Provider, t.priority \in Priority
  PROVE  FitToCall(Acquiring(t))
<1> DEFINE deadline == clock + AcquireTimeout
<1>1. Acquiring(t) = [t EXCEPT !.pc = "asleep", !.deadline = deadline, !.wake = clock]
  BY DEF Acquiring
<1> HIDE DEF deadline
<1>2. QED
  BY <1>1 DEF FitToCall, Field

LEMMA BeginSound ==
  ASSUME EngineInv, NEW c \in Caller, NEW p \in Provider, NEW pr \in Priority,
         Begin(c, p, pr)
  PROVE  Sound
<1> DEFINE start == [Idle EXCEPT !.provider = p, !.priority = pr, !.begun = clock]
<1>1. DOMAIN start = Field /\ start.provider = p /\ start.priority = pr
  BY DEF Idle, Field
<1>2. thread' = [thread EXCEPT ![c] = Acquiring(start)] /\ UNCHANGED limiterVars
  BY DEF Begin
<1> HIDE DEF start
<1>3. FitToCall(Acquiring(start))
  BY <1>1, AcquiringFits
<1>4. QED
  BY <1>2, <1>3, OneThreadStep DEF Sound, limiterVars

LEMMA PollingSteps ==
  ASSUME EngineInv, NEW c \in Caller
  PROVE  /\ ReadClock(c) => Sound
         /\ Acquire(c) => Sound
         /\ RefusedForTokens(c) => Sound
         /\ RefusedForCircuit(c) => Sound
         /\ SeesTimeLeft(c) \/ FallAsleep(c) => Sound
         /\ AcquireTimedOut(c) => Sound
         /\ NextAttempt(c) => Sound
<1> DEFINE t == thread[c]
<1>1. FitToCall(t) /\ clock \in Reading /\ DOMAIN t = Field
  BY LimiterConstants DEF EngineInv, Reading, FitToCall
<1>2. ASSUME ReadClock(c) PROVE Sound
  <2>1. FitToCall([t EXCEPT !.pc = "polling", !.reading = clock, !.wake = 0])
    BY <1>1 DEF FitToCall, Field
  <2>2. QED
    BY <1>2, <2>1, OneThreadStep DEF ReadClock, Sound, limiterVars
<1>3. ASSUME Acquire(c) PROVE Sound
  <2> DEFINE answered == clock + CallTimeout
             u == [t EXCEPT !.pc = "calling", !.deadline = 0, !.reading = 0,
                            !.wake = answered]
  <2>1. /\ t.pc = "polling" /\ Grant(t.provider, t.priority, t.reading)
        /\ thread' = [thread EXCEPT ![c] = u]
    BY <1>3 DEF Acquire, At
  <2>2. FitToCall(u)
    <3> HIDE DEF answered
    <3>1. QED
      BY <1>1 DEF FitToCall, Field
  <2>3. t.provider \in Provider /\ t.priority \in Priority /\ t.reading \in Reading
    BY <1>1, <2>1 DEF FitToCall
  <2> HIDE DEF u, t
  <2>4. Next /\ clock' = clock
    BY <2>1, <2>3 DEF Next, Grant
  <2>5. QED
    BY <2>1, <2>2, <2>4, OneThreadStep DEF Sound
<1>4. ASSUME NEW ticks, Refused(c, ticks), Next \/ UNCHANGED limiterVars, clock' = clock
      PROVE  Sound
  <2>1. FitToCall([t EXCEPT !.pc = "refused", !.wait = ticks, !.reading = 0])
    BY <1>1 DEF FitToCall, Field
  <2>2. QED
    BY <1>4, <2>1, OneThreadStep DEF Refused, Sound
<1>5. ASSUME RefusedForTokens(c) PROVE Sound
  <2>1. t.pc = "polling" /\ RefuseForTokens(t.provider, t.priority, t.reading)
    BY <1>5 DEF RefusedForTokens, At
  <2>2. t.provider \in Provider /\ t.priority \in Priority /\ t.reading \in Reading
    BY <1>1, <2>1 DEF FitToCall
  <2>3. Next /\ clock' = clock
    BY <2>1, <2>2 DEF Next, RefuseForTokens
  <2>4. QED
    BY <1>4, <1>5, <2>3 DEF RefusedForTokens
<1>6. ASSUME RefusedForCircuit(c) PROVE Sound
  <2>1. UNCHANGED limiterVars /\ clock' = clock
    BY <1>6 DEF RefusedForCircuit, RefuseForCircuit, limiterVars
  <2>2. QED
    BY <1>4, <1>6, <2>1 DEF RefusedForCircuit
<1>7. ASSUME SeesTimeLeft(c) \/ FallAsleep(c) PROVE Sound
  <2>1. CASE SeesTimeLeft(c)
    <3> DEFINE u == [t EXCEPT !.pc = "drowsy", !.reading = clock]
    <3>1. thread' = [thread EXCEPT ![c] = u] /\ UNCHANGED limiterVars
      BY <2>1 DEF SeesTimeLeft
    <3>2. FitToCall(u)
      BY <1>1 DEF FitToCall, Field
    <3> HIDE DEF u
    <3>3. QED
      BY <3>1, <3>2, OneThreadStep DEF Sound, limiterVars
  <2>2. CASE FallAsleep(c)
    <3> DEFINE wake == clock + Larger(Smaller(t.wait, t.deadline - t.reading), 1)
               u == [t EXCEPT !.pc = "asleep", !.wait = 0, !.reading = 0, !.wake = wake]
    <3>1. thread' = [thread EXCEPT ![c] = u] /\ UNCHANGED limiterVars
      BY <2>2 DEF FallAsleep
    <3>2. FitToCall(u)
      <4> HIDE DEF wake
      <4>1. QED
        BY <1>1 DEF FitToCall, Field
    <3> HIDE DEF u
    <3>3. QED
      BY <3>1, <3>2, OneThreadStep DEF Sound, limiterVars
  <2>3. QED
    BY <1>7, <2>1, <2>2
<1>8. ASSUME AcquireTimedOut(c) PROVE Sound
  BY <1>8, IdleFits, OneThreadStep DEF AcquireTimedOut, Sound, limiterVars
<1>9. ASSUME NextAttempt(c) PROVE Sound
  <2>1. FitToCall(Acquiring(t))
    BY <1>1, AcquiringFits DEF FitToCall
  <2>2. QED
    BY <1>9, <2>1, OneThreadStep DEF NextAttempt, Sound, limiterVars
<1>10. QED
  BY <1>2, <1>3, <1>5, <1>6, <1>7, <1>8, <1>9

LEMMA AnswerSteps ==
  ASSUME EngineInv, NEW c \in Caller
  PROVE  /\ RecordAndDecide(c) => Sound
         /\ Answer(c) => Sound
<1> DEFINE t == thread[c]
<1>1. FitToCall(t) /\ clock \in Reading /\ t.provider \in Provider
  BY LimiterConstants DEF EngineInv, Reading, FitToCall
<1>2. ASSUME RecordAndDecide(c) PROVE Sound
  <2>1. /\ t.pc = "limited" /\ RecordRateLimit(t.provider, t.wait, t.reading)
        /\ thread' = [thread EXCEPT ![c] = AfterFailure(t, t.wait)]
    BY <1>2 DEF RecordAndDecide, At
  <2>2. t.reading \in Reading /\ t.wait \in Hint
    BY <1>1, <2>1 DEF FitToCall
  <2>3. Next /\ clock' = clock
    BY <1>1, <2>1, <2>2 DEF Next, RecordRateLimit
  <2>4. FitToCall(AfterFailure(t, t.wait))
    BY <1>1, AfterFailureFits
  <2>5. QED
    BY <2>1, <2>3, <2>4, OneThreadStep DEF Sound
<1>3. ASSUME Succeed(c) PROVE Sound
  <2>1. Next /\ clock' = clock
    BY <1>1, <1>3 DEF Succeed, Next, RecordSuccess
  <2>2. QED
    BY <1>3, <2>1, IdleFits, OneThreadStep DEF Succeed, Sound
<1>4. ASSUME Rejected(c) PROVE Sound
  <2>1. Next /\ clock' = clock
    BY <1>1, <1>4 DEF Rejected, Next, DropCall
  <2>2. QED
    BY <1>4, <2>1, IdleFits, OneThreadStep DEF Rejected, Sound
<1>5. ASSUME NEW h \in Header, RateLimited(c, h) PROVE Sound
  <2> DEFINE a == Asked(t, h)
             w == HintOf(h, clock)
             u == [a EXCEPT !.pc = "limited", !.reading = clock, !.wait = w, !.wake = 0]
  <2>1. t.pc = "calling" /\ thread' = [thread EXCEPT ![c] = u] /\ UNCHANGED limiterVars
    <3> HIDE DEF t
    <3>1. t.pc = "calling"
      BY <1>5 DEF RateLimited, At, t
    <3>2. thread' = [thread EXCEPT ![c] = u]
      BY <1>5 DEF RateLimited, t, EngineInv
    <3>3. QED
      BY <1>5, <3>1, <3>2 DEF RateLimited
  <2>2. w \in Hint
    BY EngineConstants DEF EngineInv
  <2>3. FitToCall(a)
    BY <1>1, <2>1, AskedFits
  <2>4. FitToCall(u)
    <3> HIDE DEF a, w
    <3>1. QED
      BY <1>1, <2>2, <2>3 DEF FitToCall, Field
  <2> HIDE DEF u
  <2>5. QED
    BY <2>1, <2>4, OneThreadStep DEF Sound, limiterVars
<1>6. ASSUME NEW h \in Header, Unavailable(c, h) PROVE Sound
  <2> DEFINE a == Asked(t, h)
             u == AfterFailure(a, HintOf(h, clock))
  <2>1. t.pc = "calling" /\ thread' = [thread EXCEPT ![c] = u] /\ DropCall(t.provider)
    BY <1>6 DEF Unavailable, At
  <2>2. FitToCall(a)
    BY <1>1, <2>1, AskedFits
  <2>3. FitToCall(u)
    <3> HIDE DEF a
    <3>1. QED
      BY <2>2, AfterFailureFits
  <2> HIDE DEF u
  <2>4. Next /\ clock' = clock
    BY <1>1, <2>1 DEF Next, DropCall
  <2>5. QED
    BY <2>1, <2>3, <2>4, OneThreadStep DEF Sound
<1>7. QED
  BY <1>2, <1>3, <1>4, <1>5, <1>6 DEF Answer

\* What passing time does to a thread's locals: nothing, or one more tick late.
LEMMA OlderThread ==
  ASSUME NEW t, DOMAIN t = Field
  PROVE  LET u == [t EXCEPT !.late = t.late + 1] IN
         /\ DOMAIN u = Field /\ u.late = t.late + 1
         /\ \A f \in Field \ {"late"} : u[f] = t[f]
<1> DEFINE later == t.late + 1
<1> HIDE DEF later
<1>1. LET u == [t EXCEPT !.late = later] IN
      /\ DOMAIN u = Field /\ u.late = later
      /\ \A f \in Field \ {"late"} : u[f] = t[f]
  BY DEF Field
<1>2. QED
  BY <1>1 DEF later

LEMMA EngineStepSound == EngineInv /\ [EngineNext]_engineVars => Sound
<1> SUFFICES ASSUME EngineInv, [EngineNext]_engineVars PROVE Sound
  OBVIOUS
<1>1. ASSUME TimePasses PROVE Sound
  <2>1. clock' \in StartTime..MaxClock /\ Reading \subseteq Reading'
    BY <1>1, LimiterConstants DEF TimePasses, Tick, EngineInv, Reading
  <2>2. \A t : FitToCall(t) => FitToCall(t)'
    BY <2>1 DEF FitToCall
  <2>3. ASSUME NEW c \in Caller PROVE FitToCall(thread'[c])
    <3> DEFINE t == thread[c]
               u == [t EXCEPT !.late = t.late + 1]
    <3>1. FitToCall(t) /\ DOMAIN t = Field
      BY DEF EngineInv, FitToCall
    <3>2. thread'[c] = t \/ thread'[c] = u
      BY <1>1 DEF TimePasses
    <3>3. /\ DOMAIN u = Field /\ u.provider = t.provider /\ u.priority = t.priority
          /\ u.pc = t.pc /\ u.reading = t.reading /\ u.wait = t.wait
      BY <3>1, OlderThread DEF Field
    <3> HIDE DEF u, t
    <3>4. FitToCall(u)
      BY <3>1, <3>3 DEF FitToCall
    <3>5. QED
      BY <3>1, <3>2, <3>4
  <2>4. \A c \in Caller : FitToCall(thread[c])'
    BY <2>2, <2>3
  <2>5. thread' = [c \in Caller |-> thread'[c]]
    BY <1>1 DEF TimePasses
  <2>6. EngineInv'
    BY <2>1, <2>4, <2>5 DEF EngineInv
  <2>7. QED
    BY <1>1, <2>6 DEF TimePasses, Next, Sound
<1>2. ASSUME NEW c \in Caller, ThreadStep(c) PROVE Sound
  BY <1>2, PollingSteps, AnswerSteps DEF ThreadStep
<1>3. ASSUME NEW c \in Caller, NEW p \in Provider, NEW pr \in Priority, Begin(c, p, pr)
      PROVE  Sound
  BY <1>3, BeginSound
<1>4. ASSUME UNCHANGED engineVars PROVE Sound
  BY <1>4 DEF engineVars, limiterVars, EngineInv, FitToCall, Reading, Sound
<1>5. QED
  BY <1>1, <1>2, <1>3, <1>4 DEF EngineNext, CallerStep

\* Whatever a thread of complete() is doing, what it holds is fit for its next call.
THEOREM EngineInvariant == EngineSpec => []EngineInv
<1>1. EngineInv /\ [EngineNext]_engineVars => EngineInv'
  BY EngineStepSound DEF Sound
<1>2. QED
  BY <1>1, EngineInitInv, PTL DEF EngineSpec

\* complete() uses the shared limiter only as it is meant to be used - every
\* grant is followed by at most one record for that provider, with a reading
\* that is not from the future and a wait the server sent - so a system of any
\* number of callers implements the limiter's specification.
THEOREM EngineImplementsLimiter == EngineSpec => ImplementsLimiter
<1>1. EngineInit => Init
  BY DEF EngineInit
<1>2. EngineInv /\ [EngineNext]_engineVars => [Next]_limiterVars
  BY EngineStepSound DEF Sound
<1>3. QED
  BY <1>1, <1>2, EngineInvariant, PTL DEF EngineSpec, Spec, ImplementsLimiter

\* Hence what is proved of the limiter holds of the callers' system: no window
\* admits more than the provider's budget, and background traffic never eats
\* the tokens held back for higher priorities.
THEOREM EngineKeepsBudget == EngineSpec => [](BudgetKept /\ HeadroomKept)
BY EngineImplementsLimiter, BudgetIsKept, HeadroomIsKept, PTL DEF ImplementsLimiter

\* And so the whole call path - callers, retries, backoff and limiter - implements
\* the abstract budget, in which there is neither bucket nor breaker nor thread.
THEOREM EngineImplementsBudget == EngineSpec => ImplementsBudget
BY EngineImplementsLimiter, LimiterImplementsBudget DEF ImplementsLimiter

-----------------------------------------------------------------------------
(* The wait the server asked for *)

\* A refusal's wait is a number of ticks.
LEMMA BucketWaitIsTicks ==
  ASSUME BudgetInv, NEW p \in Provider, NEW pr \in Priority, NEW at \in Reading
  PROVE  BucketWait(p, pr, at) \in Nat
<1> DEFINE have == BucketAt(p, at).tokens
           price == Price(p, pr)
<1>1. have \in Nat
  BY RefillBudget DEF Bucket
<1>2. price \in Nat /\ Quota(p) \in Nat /\ Quota(p) >= 1
  BY ReserveFacts, QuotaFacts, LimiterConstants DEF Price
<1>3. BucketWait(p, pr, at) = IF have >= price THEN 0 ELSE CeilDiv(price - have, Quota(p))
  BY DEF BucketWait
<1> HIDE DEF have, price
<1>4. ASSUME NEW n \in Nat, NEW q \in Nat, q >= 1 PROVE CeilDiv(n, q) \in Nat
  <2>1. n + q - 1 \in Nat
    BY <1>4
  <2>2. \A m \in Nat : m \div q \in Nat
    BY <1>4
  <2>3. QED
    BY <2>1, <2>2 DEF CeilDiv
<1>5. CASE have >= price
  BY <1>3, <1>5
<1>6. CASE ~(have >= price)
  <2>1. price - have \in Nat
    BY <1>1, <1>2, <1>6
  <2>2. QED
    BY <1>2, <1>3, <1>4, <1>6, <2>1
<1>7. QED
  BY <1>5, <1>6

LEMMA CircuitWaitIsTicks ==
  ASSUME BudgetInv, NEW at \in Reading
  PROVE  CircuitWait(at) \in Nat
<1>1. circuit.openUntil \in Nat /\ at \in Nat
  BY LimiterConstants DEF BudgetInv, TypeOK, Reading
<1>2. QED
  BY <1>1 DEF CircuitWait

\* A thread inside acquire() has waited for as long as the server asked; one
\* that backs off, or has yet to record its 429, will have before it goes on.
Patient(t) ==
  /\ t.pc \in {"asleep", "polling", "refused", "drowsy"} => t.asked <= clock
  /\ t.pc = "backoff" => t.asked <= t.wake
  /\ t.pc = "limited" => t.asked <= clock + t.wait

AllPatient == \A c \in Caller : thread[c] \in Thread /\ Patient(thread[c])

LEMMA OnePatientStep ==
  ASSUME EngineInv, AllPatient, NEW c \in Caller, NEW t \in Thread, Patient(t),
         thread' = [thread EXCEPT ![c] = t], clock' = clock
  PROVE  AllPatient'
<1>1. \A d \in Caller : thread'[d] = IF d = c THEN t ELSE thread[d]
  BY DEF EngineInv
<1>2. \A s : Patient(s)' <=> Patient(s)
  BY DEF Patient
<1>3. \A s : (s \in Thread)' <=> s \in Thread
  OBVIOUS
<1>4. QED
  BY <1>1, <1>2, <1>3 DEF AllPatient

LEMMA IdlePatient == Idle \in Thread /\ Patient(Idle)
<1>1. AnyProvider \in Provider
  BY EngineConstants DEF AnyProvider
<1>2. QED
  BY <1>1 DEF Idle, Thread, Label, Priority, Patient

LEMMA AcquiringPatient ==
  ASSUME clock \in Nat, NEW t \in Thread, t.asked <= clock
  PROVE  Acquiring(t) \in Thread /\ Patient(Acquiring(t))
<1> DEFINE deadline == clock + AcquireTimeout
<1>1. Acquiring(t) = [t EXCEPT !.pc = "asleep", !.deadline = deadline, !.wake = clock]
  BY DEF Acquiring
<1>2. deadline \in Nat
  BY EngineConstants
<1> HIDE DEF deadline
<1>3. QED
  BY <1>1, <1>2 DEF Thread, Label, Patient

\* The backoff is at least the hint, so it is at least what was asked.
LEMMA AfterFailurePatient ==
  ASSUME clock \in Nat, NEW t \in Thread, NEW hint \in Nat, t.asked <= clock + hint
  PROVE  AfterFailure(t, hint) \in Thread /\ Patient(AfterFailure(t, hint))
<1>1. CASE GivesUp(t.attempts + 1)
  BY <1>1, IdlePatient DEF AfterFailure
<1>2. CASE ~GivesUp(t.attempts + 1)
  <2> DEFINE failed == t.attempts + 1
             wake == clock + RetryDelay(failed, hint)
  <2>1. AfterFailure(t, hint) =
          [t EXCEPT !.pc = "backoff", !.attempts = failed, !.wait = 0, !.reading = 0,
                    !.wake = wake]
    BY <1>2 DEF AfterFailure
  <2>2. failed \in Nat /\ failed \in 1..MaxAttempts
    BY <1>2, EngineConstants DEF GivesUp, Thread
  <2>3. Backoff(failed) \in Nat
    BY <2>2, EngineConstants
  <2> HIDE DEF failed
  <2>4. RetryDelay(failed, hint) \in Nat /\ hint <= RetryDelay(failed, hint)
    BY <2>3 DEF RetryDelay, Larger
  <2>5. t.asked \in Nat
    BY DEF Thread
  <2>6. wake \in Nat /\ t.asked <= wake
    BY <2>4, <2>5
  <2> HIDE DEF wake
  <2> DEFINE u == [t EXCEPT !.pc = "backoff", !.attempts = failed, !.wait = 0, !.reading = 0,
                            !.wake = wake]
  <2>7. u \in Thread
    BY <2>2, <2>6 DEF Thread, Label
  <2>8. u.pc = "backoff" /\ u.asked = t.asked /\ u.wake = wake
    BY DEF Thread
  <2> HIDE DEF u
  <2>9. Patient(u)
    BY <2>6, <2>8 DEF Patient
  <2>10. QED
    BY <2>1, <2>7, <2>9 DEF u
<1>3. QED
  BY <1>1, <1>2

\* What the server asks for is no more than the wait its answer is turned into.
LEMMA AskedIsHinted ==
  ASSUME clock \in Reading, clock \in Nat, clock \in StartTime..MaxClock,
         NEW t \in Thread, NEW h \in Header
  PROVE  /\ HintOf(h, clock) \in Nat
         /\ Asked(t, h) \in Thread
         /\ Asked(t, h).asked <= clock + HintOf(h, clock)
         /\ \A f \in {"pc", "attempts", "provider"} : Asked(t, h)[f] = t[f]
<1> DEFINE asked == clock + (IF h.kind = "after" THEN h.value ELSE 0)
<1>1. Asked(t, h) = [t EXCEPT !.asked = asked]
  BY DEF Asked
<1>2. h.kind \in HeaderKind /\ h.value \in Nat
  BY EngineConstants
<1>3. HintOf(h, clock) \in Nat
  BY EngineConstants, LimiterConstants
<1>4. asked \in Nat /\ asked <= clock + HintOf(h, clock)
  BY <1>2, <1>3 DEF HintOf, HeaderKind
<1> HIDE DEF asked
<1>5. QED
  BY <1>1, <1>3, <1>4 DEF Thread

LEMMA PatientStep ==
  EngineInv /\ BudgetInv /\ AllPatient /\ [EngineNext]_engineVars => AllPatient'
<1> SUFFICES ASSUME EngineInv, BudgetInv, AllPatient, [EngineNext]_engineVars
             PROVE  AllPatient'
  OBVIOUS
<1>1. clock \in Nat /\ clock \in Reading /\ clock \in StartTime..MaxClock
  BY LimiterConstants DEF EngineInv, Reading
<1>2. \A c \in Caller : /\ FitToCall(thread[c]) /\ thread[c] \in Thread
                        /\ Patient(thread[c])
  BY DEF EngineInv, AllPatient
<1>3. CASE TimePasses
  <2>1. clock' \in Nat /\ clock <= clock'
    BY <1>1, <1>3 DEF TimePasses, Tick
  <2>2. \A t \in Thread : Patient(t) => Patient(t)'
    BY <1>1, <2>1 DEF Patient, Thread
  <2>3. ASSUME NEW c \in Caller PROVE thread'[c] \in Thread /\ Patient(thread'[c])
    <3> DEFINE t == thread[c]
               u == [t EXCEPT !.late = t.late + 1]
    <3>1. t \in Thread /\ Patient(t) /\ t.late + 1 \in Nat
      BY <1>2 DEF Thread
    <3>2. thread'[c] = t \/ thread'[c] = u
      BY <1>3 DEF TimePasses
    <3>3. u \in Thread /\ u.pc = t.pc /\ u.asked = t.asked /\ u.wake = t.wake /\ u.wait = t.wait
      BY <3>1 DEF Thread
    <3> HIDE DEF u, t
    <3>4. Patient(u)
      BY <3>1, <3>3 DEF Patient
    <3>5. QED
      BY <3>1, <3>2, <3>3, <3>4
  <2>4. \A c \in Caller : thread'[c] \in Thread /\ Patient(thread[c])'
    BY <2>2, <2>3
  <2>5. QED
    BY <2>4 DEF AllPatient
<1>4. CASE UNCHANGED engineVars
  BY <1>4 DEF engineVars, limiterVars, AllPatient, Patient
<1>5. ASSUME NEW c \in Caller, NEW p \in Provider, NEW pr \in Priority, Begin(c, p, pr)
      PROVE  AllPatient'
  <2> DEFINE start == [Idle EXCEPT !.provider = p, !.priority = pr, !.begun = clock]
  <2>1. start \in Thread /\ start.asked = 0
    BY <1>1, IdlePatient DEF Idle, Thread
  <2>2. thread' = [thread EXCEPT ![c] = Acquiring(start)] /\ clock' = clock
    BY <1>5 DEF Begin, limiterVars
  <2> HIDE DEF start
  <2>3. Acquiring(start) \in Thread /\ Patient(Acquiring(start))
    BY <1>1, <2>1, AcquiringPatient
  <2>4. QED
    BY <2>2, <2>3, OnePatientStep
<1>6. ASSUME NEW c \in Caller, ThreadStep(c) PROVE AllPatient'
  <2> DEFINE t == thread[c]
  <2>1. /\ FitToCall(t) /\ t \in Thread /\ Patient(t) /\ t.reading \in Nat
        /\ t.wait \in Nat /\ t.deadline \in Nat /\ t.asked \in Nat /\ t.wake \in Nat
    BY <1>2 DEF Thread
  <2>2. ASSUME ReadClock(c) PROVE AllPatient'
    <3> DEFINE u == [t EXCEPT !.pc = "polling", !.reading = clock, !.wake = 0]
    <3>1. t.pc = "asleep" /\ thread' = [thread EXCEPT ![c] = u] /\ clock' = clock
      BY <2>2 DEF ReadClock, At, limiterVars
    <3>2. u \in Thread /\ Patient(u)
      BY <1>1, <2>1, <3>1 DEF Thread, Label, Patient
    <3> HIDE DEF u
    <3>3. QED
      BY <3>1, <3>2, OnePatientStep
  <2>3. ASSUME Acquire(c) PROVE AllPatient'
    <3> DEFINE answered == clock + CallTimeout
               u == [t EXCEPT !.pc = "calling", !.deadline = 0, !.reading = 0,
                              !.wake = answered]
    <3>1. thread' = [thread EXCEPT ![c] = u] /\ clock' = clock
      BY <2>3 DEF Acquire, Grant
    <3>2. answered \in Nat
      BY <1>1, EngineConstants
    <3>3. u \in Thread /\ Patient(u)
      <4> HIDE DEF answered
      <4>1. QED
        BY <2>1, <3>2 DEF Thread, Label, Patient
    <3> HIDE DEF u
    <3>4. QED
      BY <3>1, <3>3, OnePatientStep
  <2>4. ASSUME t.pc = "polling", NEW ticks \in Nat, Refused(c, ticks), clock' = clock
        PROVE  AllPatient'
    <3> DEFINE u == [t EXCEPT !.pc = "refused", !.wait = ticks, !.reading = 0]
    <3>1. u \in Thread /\ Patient(u)
      BY <2>1, <2>4 DEF Thread, Label, Patient
    <3>2. thread' = [thread EXCEPT ![c] = u]
      BY <2>4 DEF Refused
    <3> HIDE DEF u
    <3>3. QED
      BY <2>4, <3>1, <3>2, OnePatientStep
  <2>5. ASSUME RefusedForTokens(c) PROVE AllPatient'
    <3>1. /\ t.pc = "polling" /\ t.provider \in Provider /\ t.priority \in Priority
          /\ t.reading \in Reading /\ clock' = clock
      BY <2>1, <2>5 DEF RefusedForTokens, RefuseForTokens, At, FitToCall
    <3>2. BucketWait(t.provider, t.priority, t.reading) \in Nat
      BY <3>1, BucketWaitIsTicks
    <3>3. QED
      BY <2>4, <2>5, <3>1, <3>2 DEF RefusedForTokens
  <2>6. ASSUME RefusedForCircuit(c) PROVE AllPatient'
    <3>1. t.pc = "polling" /\ t.reading \in Reading /\ clock' = clock
      BY <2>1, <2>6 DEF RefusedForCircuit, RefuseForCircuit, limiterVars, At, FitToCall
    <3>2. CircuitWait(t.reading) \in Nat
      BY <3>1, CircuitWaitIsTicks
    <3>3. QED
      BY <2>4, <2>6, <3>1, <3>2 DEF RefusedForCircuit
  <2>7. ASSUME FallAsleep(c) PROVE AllPatient'
    <3> DEFINE wake == clock + Larger(Smaller(t.wait, t.deadline - t.reading), 1)
               u == [t EXCEPT !.pc = "asleep", !.wait = 0, !.reading = 0, !.wake = wake]
    <3>1. /\ t.pc = "drowsy" /\ clock' = clock
          /\ thread' = [thread EXCEPT ![c] = u]
      BY <2>7 DEF FallAsleep, At, limiterVars
    <3>2. wake \in Nat
      BY <1>1, <2>1 DEF Larger, Smaller
    <3>3. u \in Thread /\ Patient(u)
      <4> HIDE DEF wake
      <4>1. QED
        BY <2>1, <3>1, <3>2 DEF Thread, Label, Patient
    <3> HIDE DEF u
    <3>4. QED
      BY <3>1, <3>3, OnePatientStep
  <2>14. ASSUME SeesTimeLeft(c) PROVE AllPatient'
    <3> DEFINE u == [t EXCEPT !.pc = "drowsy", !.reading = clock]
    <3>1. /\ t.pc = "refused" /\ clock' = clock
          /\ thread' = [thread EXCEPT ![c] = u]
      BY <2>14 DEF SeesTimeLeft, At, limiterVars
    <3>2. u \in Thread /\ Patient(u)
      BY <1>1, <2>1, <3>1 DEF Thread, Label, Patient
    <3> HIDE DEF u
    <3>3. QED
      BY <3>1, <3>2, OnePatientStep
  <2>8. ASSUME AcquireTimedOut(c) \/ Succeed(c) \/ Rejected(c) PROVE AllPatient'
    <3>1. thread' = [thread EXCEPT ![c] = Idle] /\ clock' = clock
      BY <2>8 DEF AcquireTimedOut, Succeed, Rejected, RecordSuccess, DropCall, limiterVars
    <3>2. QED
      BY <3>1, IdlePatient, OnePatientStep
  <2>9. ASSUME NextAttempt(c) PROVE AllPatient'
    <3>1. /\ t.pc = "backoff" /\ clock >= t.wake /\ clock' = clock
          /\ thread' = [thread EXCEPT ![c] = Acquiring(t)]
      BY <2>9 DEF NextAttempt, At, limiterVars, EngineInv
    <3>2. t.asked <= clock
      BY <1>1, <2>1, <3>1 DEF Patient
    <3>3. QED
      BY <1>1, <2>1, <3>1, <3>2, AcquiringPatient, OnePatientStep
  <2>10. ASSUME RecordAndDecide(c) PROVE AllPatient'
    <3>1. /\ t.pc = "limited" /\ clock' = clock
          /\ thread' = [thread EXCEPT ![c] = AfterFailure(t, t.wait)]
      BY <2>10 DEF RecordAndDecide, RecordRateLimit, At
    <3>2. t.asked <= clock + t.wait
      BY <2>1, <3>1 DEF Patient
    <3>3. QED
      BY <1>1, <2>1, <3>1, <3>2, AfterFailurePatient, OnePatientStep
  <2>11. ASSUME NEW h \in Header, RateLimited(c, h) PROVE AllPatient'
    <3> DEFINE a == Asked(t, h)
               w == HintOf(h, clock)
               u == [a EXCEPT !.pc = "limited", !.reading = clock, !.wait = w, !.wake = 0]
    <3>1. clock' = clock /\ thread' = [thread EXCEPT ![c] = u]
      BY <2>11 DEF RateLimited, limiterVars, EngineInv
    <3>2. a \in Thread /\ w \in Nat /\ a.asked <= clock + w
      BY <1>1, <2>1, AskedIsHinted
    <3>3. u \in Thread /\ Patient(u)
      <4> HIDE DEF a, w
      <4>1. QED
        BY <1>1, <3>2 DEF Thread, Label, Patient
    <3> HIDE DEF u
    <3>4. QED
      BY <3>1, <3>3, OnePatientStep
  <2>12. ASSUME NEW h \in Header, Unavailable(c, h) PROVE AllPatient'
    <3> DEFINE a == Asked(t, h)
               w == HintOf(h, clock)
    <3>1. clock' = clock /\ thread' = [thread EXCEPT ![c] = AfterFailure(a, w)]
      BY <2>12 DEF Unavailable, DropCall
    <3>2. a \in Thread /\ w \in Nat /\ a.asked <= clock + w
      BY <1>1, <2>1, AskedIsHinted
    <3> HIDE DEF a, w
    <3>3. QED
      BY <1>1, <3>1, <3>2, AfterFailurePatient, OnePatientStep
  <2>13. QED
    BY <1>6, <2>2, <2>3, <2>5, <2>6, <2>7, <2>8, <2>9, <2>10, <2>11, <2>12, <2>14
       DEF ThreadStep, Answer
<1>7. QED
  BY <1>3, <1>4, <1>5, <1>6 DEF EngineNext, CallerStep

\* No thread gets to its next call before its last hint allows.
THEOREM EngineStaysPatient == EngineSpec => [](EngineInv /\ AllPatient)
<1>1. EngineInit => AllPatient
  BY IdlePatient DEF EngineInit, AllPatient
<1>2. EngineSpec => []BudgetInv
  BY EngineImplementsLimiter, BudgetInvariant, PTL DEF ImplementsLimiter
<1>3. QED
  BY <1>1, <1>2, PatientStep, EngineInvariant, PTL DEF EngineSpec

\* The limiter's state and every thread's locals keep to their types.
THEOREM EngineTypeCorrect == EngineSpec => []EngineTypeOK
<1>1. EngineInv /\ AllPatient /\ TypeOK => EngineTypeOK
  BY DEF EngineInv, AllPatient, EngineTypeOK
<1>2. EngineSpec => []TypeOK
  BY EngineImplementsLimiter, TypeCorrect, PTL DEF ImplementsLimiter
<1>3. QED
  BY <1>1, <1>2, EngineStaysPatient, PTL

\* However many refusals, polls and preemptions lie between, no call is admitted
\* sooner than the provider's last Retry-After allows (engine.rs, complete: the
\* backoff is the longer of the hint and the policy's).
THEOREM HintsAreHonoured == EngineSpec => HintHonoured
<1>1. ASSUME EngineInv, AllPatient, [EngineNext]_engineVars
      PROVE  [\A c \in Caller :
                At(c, "polling") /\ thread'[c].pc = "calling" => clock >= thread[c].asked
             ]_engineVars
  <2>1. clock \in Nat /\ \A c \in Caller : thread[c].asked \in Nat
    BY <1>1, LimiterConstants DEF EngineInv, AllPatient, Thread
  <2>2. QED
    BY <1>1, <2>1 DEF AllPatient, Patient, At
<1>2. QED
  BY <1>1, EngineStaysPatient, PTL DEF EngineSpec, HintHonoured

-----------------------------------------------------------------------------
(* How long a request takes, beyond what its thread was kept from running *)

\* There is an attempt to make, and a longest wait a server can announce.
BoundedWaits == MaxAttempts >= 1 /\ \E d \in Hint : \A e \in Hint : d >= e

\* One attempt with its acquire, its call and the wait after it.
Turn == AcquireTimeout + CallTimeout + LongestWait

\* The latest time the thread's current attempt may begin.
Latest(t) == t.begun + t.attempts * Turn + t.late

\* A thread about to sleep works with the time left when it looked; what has
\* passed since is time it was late.
Within(t) ==
  /\ t.pc # "idle" => t.attempts < MaxAttempts
  /\ t.pc \in {"asleep", "polling", "refused", "drowsy"} =>
       clock <= Latest(t) + AcquireTimeout /\ t.deadline <= Latest(t) + AcquireTimeout
  /\ t.pc = "asleep" => t.wake <= Latest(t) + AcquireTimeout
  /\ t.pc = "drowsy" =>
       /\ t.reading < t.deadline
       /\ t.deadline + clock <= Latest(t) + AcquireTimeout + t.reading
  /\ t.pc = "calling" =>
       /\ clock <= Latest(t) + AcquireTimeout + CallTimeout
       /\ t.wake <= Latest(t) + AcquireTimeout + CallTimeout
  /\ t.pc = "limited" => clock <= Latest(t) + AcquireTimeout + CallTimeout
  /\ t.pc = "backoff" => clock <= Latest(t) /\ t.wake <= Latest(t)

AllWithin == \A c \in Caller : Within(thread[c])

LEMMA WaitsAreBounded ==
  ASSUME BoundedWaits
  PROVE  /\ LongestWait \in Nat /\ Turn \in Nat
         /\ \A hint \in Hint, failed \in 1..MaxAttempts :
              RetryDelay(failed, hint) \in Nat /\ RetryDelay(failed, hint) <= LongestWait
<1> DEFINE longest == CHOOSE d \in Hint : \A e \in Hint : d >= e
<1>1. longest \in Hint /\ \A e \in Hint : longest >= e
  BY DEF BoundedWaits
<1>2. longest \in Nat /\ Hint \subseteq Nat
  BY <1>1, LimiterConstants
<1>3. LongestWait = Larger(MaxBackoff, longest)
  BY DEF LongestWait
<1> HIDE DEF longest
<1>4. LongestWait \in Nat /\ LongestWait >= MaxBackoff /\ LongestWait >= longest
  BY <1>2, <1>3, EngineConstants DEF Larger
<1>5. ASSUME NEW failed \in 1..MaxAttempts
      PROVE  Backoff(failed) \in Nat /\ Backoff(failed) <= MaxBackoff
  <2> DEFINE doubled == BaseBackoff * 2^(failed - 1)
  <2>1. Backoff(failed) = IF doubled <= MaxBackoff THEN doubled ELSE MaxBackoff
    BY DEF Backoff, Smaller
  <2> HIDE DEF doubled
  <2>2. Backoff(failed) <= MaxBackoff
    BY <2>1, EngineConstants
  <2>3. QED
    BY <2>2, EngineConstants
<1>6. ASSUME NEW hint \in Hint, NEW failed \in 1..MaxAttempts
      PROVE  RetryDelay(failed, hint) \in Nat /\ RetryDelay(failed, hint) <= LongestWait
  <2>1. hint \in Nat /\ hint <= LongestWait
    BY <1>1, <1>2, <1>4
  <2>2. Backoff(failed) \in Nat /\ Backoff(failed) <= LongestWait
    BY <1>4, <1>5, EngineConstants
  <2>3. QED
    BY <2>1, <2>2, <1>4 DEF RetryDelay, Larger
<1>7. QED
  BY <1>4, <1>6, EngineConstants DEF Turn

LEMMA LatestIsTime ==
  ASSUME BoundedWaits, NEW t \in Thread
  PROVE  Latest(t) \in Nat
<1>1. Turn \in Nat /\ t.begun \in Nat /\ t.attempts \in Nat /\ t.late \in Nat
  BY WaitsAreBounded DEF Thread
<1>2. \A m, n \in Nat : m * n \in Nat
  OBVIOUS
<1>3. QED
  BY <1>1, <1>2 DEF Latest

\* The next attempt may begin a turn later.
LEMMA TurnsAddUp ==
  ASSUME BoundedWaits, NEW t \in Thread, NEW u, u.begun = t.begun,
         u.attempts = t.attempts + 1, u.late = t.late
  PROVE  Latest(u) = Latest(t) + Turn
<1>1. Turn \in Nat /\ t.begun \in Nat /\ t.attempts \in Nat /\ t.late \in Nat
  BY WaitsAreBounded DEF Thread
<1>2. \A m, n \in Nat : (m + 1) * n = m * n + n /\ m * n \in Nat
  OBVIOUS
<1>3. QED
  BY <1>1, <1>2 DEF Latest

LEMMA OneStepWithin ==
  ASSUME EngineInv, AllWithin, NEW c \in Caller, NEW t, Within(t),
         thread' = [thread EXCEPT ![c] = t], clock' = clock
  PROVE  AllWithin'
<1>1. \A d \in Caller : thread'[d] = IF d = c THEN t ELSE thread[d]
  BY DEF EngineInv
<1>2. \A s : Within(s)' <=> Within(s)
  BY DEF Within, Latest, Turn, LongestWait
<1>3. QED
  BY <1>1, <1>2 DEF AllWithin

LEMMA AcquiringWithin ==
  ASSUME BoundedWaits, clock \in Nat, NEW t \in Thread, clock <= Latest(t),
         t.attempts < MaxAttempts
  PROVE  Within(Acquiring(t))
<1> DEFINE deadline == clock + AcquireTimeout
           u == [t EXCEPT !.pc = "asleep", !.deadline = deadline, !.wake = clock]
<1>1. deadline \in Nat /\ clock <= deadline /\ deadline <= Latest(t) + AcquireTimeout
  BY LatestIsTime, EngineConstants
<1> HIDE DEF deadline
<1>2. /\ u.pc = "asleep" /\ u.wake = clock /\ u.deadline = deadline
      /\ u.begun = t.begun /\ u.attempts = t.attempts /\ u.late = t.late
  BY DEF Thread
<1> HIDE DEF u
<1>3. Latest(u) = Latest(t) /\ Latest(t) \in Nat
  BY <1>2, LatestIsTime DEF Latest
<1>4. Within(u)
  BY <1>1, <1>2, <1>3, EngineConstants DEF Within
<1>5. QED
  BY <1>4 DEF Acquiring, u, deadline

LEMMA AfterFailureWithin ==
  ASSUME BoundedWaits, clock \in Nat, NEW t \in Thread, NEW hint \in Hint,
         clock <= Latest(t) + AcquireTimeout + CallTimeout
  PROVE  Within(AfterFailure(t, hint))
<1>1. CASE GivesUp(t.attempts + 1)
  BY <1>1 DEF AfterFailure, Within, Idle
<1>2. CASE ~GivesUp(t.attempts + 1)
  <2> DEFINE failed == t.attempts + 1
             wake == clock + RetryDelay(failed, hint)
             u == [t EXCEPT !.pc = "backoff", !.attempts = failed, !.wait = 0, !.reading = 0,
                            !.wake = wake]
  <2>1. AfterFailure(t, hint) = u
    BY <1>2 DEF AfterFailure
  <2>2. failed \in 1..MaxAttempts /\ failed < MaxAttempts
    BY <1>2, EngineConstants DEF GivesUp, Thread
  <2>3. RetryDelay(failed, hint) \in Nat /\ RetryDelay(failed, hint) <= LongestWait
    BY <2>2, WaitsAreBounded
  <2>4. /\ u.pc = "backoff" /\ u.wake = wake /\ u.begun = t.begun /\ u.attempts = failed
        /\ u.late = t.late
    <3> HIDE DEF failed, wake
    <3>1. QED
      BY DEF Thread
  <2> HIDE DEF u
  <2>5. Latest(u) = Latest(t) + Turn /\ Latest(t) \in Nat
    BY <2>4, TurnsAddUp, LatestIsTime
  <2>6. clock <= Latest(u) /\ wake <= Latest(u)
    BY <2>3, <2>5, WaitsAreBounded, EngineConstants DEF Turn
  <2> HIDE DEF failed, wake
  <2>7. QED
    BY <2>1, <2>2, <2>4, <2>6 DEF Within
<1>3. QED
  BY <1>1, <1>2

LEMMA WithinStep ==
  ASSUME BoundedWaits
  PROVE  EngineInv /\ AllPatient /\ AllWithin /\ [EngineNext]_engineVars => AllWithin'
<1> SUFFICES ASSUME EngineInv, AllPatient, AllWithin, [EngineNext]_engineVars
             PROVE  AllWithin'
  OBVIOUS
<1>1. clock \in Nat /\ clock \in StartTime..MaxClock
  BY LimiterConstants DEF EngineInv
<1>2. \A c \in Caller : /\ FitToCall(thread[c]) /\ thread[c] \in Thread
                        /\ Within(thread[c]) /\ Latest(thread[c]) \in Nat
  BY LatestIsTime DEF EngineInv, AllPatient, AllWithin
<1>3. CASE TimePasses
  <2>1. clock' = clock + 1
    BY <1>3 DEF TimePasses, Tick
  <2>2. ASSUME NEW c \in Caller PROVE Within(thread[c])'
    <3> DEFINE t == thread[c]
               u == [t EXCEPT !.late = t.late + 1]
    <3>1. /\ t \in Thread /\ Within(t) /\ Latest(t) \in Nat /\ t.wake \in Nat
          /\ t.deadline \in Nat /\ t.reading \in Nat /\ t.late \in Nat
      BY <1>2 DEF Thread
    <3>2. CASE Waiting(c)
      <4>1. t.pc = "idle" \/ (t.pc \in {"asleep", "backoff", "calling"} /\ clock < t.wake)
        BY <3>2 DEF Waiting, At
      <4>2. thread'[c] = t
        BY <1>3, <3>2 DEF TimePasses
      <4>3. Latest(thread[c])' = Latest(t)
        BY <4>2 DEF Latest, Turn, LongestWait
      <4> HIDE DEF t
      <4>4. QED
        BY <1>1, <2>1, <3>1, <4>1, <4>2, <4>3, EngineConstants DEF Within
    <3>3. CASE ~Waiting(c)
      <4>1. thread'[c] = u
        BY <1>3, <3>3 DEF TimePasses
      <4>2. /\ u.late = t.late + 1 /\ u.begun = t.begun /\ u.attempts = t.attempts
            /\ u.pc = t.pc /\ u.wake = t.wake /\ u.deadline = t.deadline
            /\ u.reading = t.reading
        BY <3>1 DEF Thread
      <4>3. Latest(thread[c])' = Latest(t) + 1
        <5>1. t.attempts * Turn \in Nat /\ t.begun \in Nat
          <6>1. t.attempts \in Nat /\ Turn \in Nat /\ t.begun \in Nat
            BY <3>1, WaitsAreBounded DEF Thread
          <6>2. \A m, n \in Nat : m * n \in Nat
            OBVIOUS
          <6>3. QED
            BY <6>1, <6>2
        <5>2. Latest(thread[c])' = u.begun + u.attempts * Turn + u.late
          BY <4>1 DEF Latest, Turn, LongestWait
        <5>3. QED
          BY <3>1, <4>2, <5>1, <5>2 DEF Latest
      <4> HIDE DEF t, u
      <4>4. QED
        BY <1>1, <2>1, <3>1, <4>1, <4>2, <4>3, EngineConstants DEF Within
    <3>4. QED
      BY <3>2, <3>3
  <2>3. QED
    BY <2>2 DEF AllWithin
<1>4. CASE UNCHANGED engineVars
  BY <1>4 DEF engineVars, limiterVars, AllWithin, Within, Latest, Turn, LongestWait
<1>5. ASSUME NEW c \in Caller, NEW p \in Provider, NEW pr \in Priority, Begin(c, p, pr)
      PROVE  AllWithin'
  <2> DEFINE start == [Idle EXCEPT !.provider = p, !.priority = pr, !.begun = clock]
  <2>1. /\ start \in Thread /\ start.begun = clock /\ start.attempts = 0
        /\ start.late = 0
    BY <1>1, IdlePatient DEF Idle, Thread
  <2>2. thread' = [thread EXCEPT ![c] = Acquiring(start)] /\ clock' = clock
    BY <1>5 DEF Begin, limiterVars
  <2> HIDE DEF start
  <2>3. clock <= Latest(start) /\ start.attempts < MaxAttempts
    <3>1. Turn \in Nat
      BY WaitsAreBounded
    <3>2. Latest(start) = clock
      BY <1>1, <2>1, <3>1 DEF Latest
    <3>3. QED
      BY <1>1, <2>1, <3>2, EngineConstants DEF BoundedWaits
  <2>4. Within(Acquiring(start))
    BY <1>1, <2>1, <2>3, AcquiringWithin
  <2>5. QED
    BY <2>2, <2>4, OneStepWithin
<1>6. ASSUME NEW c \in Caller, ThreadStep(c) PROVE AllWithin'
  <2> DEFINE t == thread[c]
  <2>1. /\ FitToCall(t) /\ t \in Thread /\ Within(t) /\ Latest(t) \in Nat
        /\ t.wait \in Nat /\ t.deadline \in Nat /\ t.wake \in Nat /\ t.reading \in Nat
    BY <1>2 DEF Thread
  <2>2. ASSUME ReadClock(c) PROVE AllWithin'
    <3> DEFINE u == [t EXCEPT !.pc = "polling", !.reading = clock, !.wake = 0]
    <3>1. t.pc = "asleep" /\ thread' = [thread EXCEPT ![c] = u] /\ clock' = clock
      BY <2>2 DEF ReadClock, At, limiterVars
    <3>2. /\ u.pc = "polling" /\ u.deadline = t.deadline /\ u.begun = t.begun
          /\ u.attempts = t.attempts /\ u.late = t.late
      BY <2>1 DEF Thread
    <3> HIDE DEF u
    <3>3. Within(u)
      BY <2>1, <3>1, <3>2 DEF Within, Latest
    <3>4. QED
      BY <3>1, <3>3, OneStepWithin
  <2>3. ASSUME Acquire(c) PROVE AllWithin'
    <3> DEFINE answered == clock + CallTimeout
               u == [t EXCEPT !.pc = "calling", !.deadline = 0, !.reading = 0,
                              !.wake = answered]
    <3>1. t.pc = "polling" /\ thread' = [thread EXCEPT ![c] = u] /\ clock' = clock
      BY <2>3 DEF Acquire, Grant, At
    <3>2. clock <= Latest(t) + AcquireTimeout /\ t.attempts < MaxAttempts
      BY <1>1, <2>1, <3>1, EngineConstants DEF Within
    <3>3. /\ clock <= Latest(t) + AcquireTimeout + CallTimeout
          /\ answered <= Latest(t) + AcquireTimeout + CallTimeout
      BY <1>1, <2>1, <3>2, EngineConstants
    <3> HIDE DEF answered
    <3>4. /\ u.pc = "calling" /\ u.wake = answered /\ u.begun = t.begun /\ u.attempts = t.attempts
          /\ u.late = t.late
      BY <2>1 DEF Thread
    <3> HIDE DEF u
    <3>5. Within(u)
      BY <3>2, <3>3, <3>4 DEF Within, Latest
    <3>6. QED
      BY <3>1, <3>5, OneStepWithin
  <2>4. ASSUME t.pc = "polling", NEW ticks, Refused(c, ticks), clock' = clock
        PROVE  AllWithin'
    <3> DEFINE u == [t EXCEPT !.pc = "refused", !.wait = ticks, !.reading = 0]
    <3>1. /\ u.pc = "refused" /\ u.deadline = t.deadline /\ u.begun = t.begun
          /\ u.attempts = t.attempts /\ u.late = t.late
      BY <2>1 DEF Thread
    <3>2. thread' = [thread EXCEPT ![c] = u]
      BY <2>4 DEF Refused
    <3> HIDE DEF u
    <3>3. Within(u)
      BY <2>1, <2>4, <3>1 DEF Within, Latest
    <3>4. QED
      BY <2>4, <3>2, <3>3, OneStepWithin
  <2>5. ASSUME RefusedForTokens(c) \/ RefusedForCircuit(c) PROVE AllWithin'
    <3>1. t.pc = "polling" /\ clock' = clock /\ \E ticks : Refused(c, ticks)
      BY <2>5 DEF RefusedForTokens, RefuseForTokens, RefusedForCircuit, RefuseForCircuit,
                  limiterVars, At
    <3>2. QED
      BY <2>4, <3>1
  <2>6. ASSUME FallAsleep(c) PROVE AllWithin'
    <3> DEFINE wake == clock + Larger(Smaller(t.wait, t.deadline - t.reading), 1)
               u == [t EXCEPT !.pc = "asleep", !.wait = 0, !.reading = 0, !.wake = wake]
    <3>1. t.pc = "drowsy" /\ clock' = clock /\ thread' = [thread EXCEPT ![c] = u]
      BY <2>6 DEF FallAsleep, At, limiterVars
    <3>2. /\ t.reading < t.deadline
          /\ t.deadline + clock <= Latest(t) + AcquireTimeout + t.reading
      BY <2>1, <3>1 DEF Within
    <3>3. wake \in Nat /\ wake <= clock + (t.deadline - t.reading)
      BY <1>1, <2>1, <3>2 DEF Larger, Smaller
    <3> HIDE DEF wake
    <3>4. wake <= Latest(t) + AcquireTimeout
      BY <1>1, <2>1, <3>2, <3>3, EngineConstants
    <3>5. /\ u.pc = "asleep" /\ u.wake = wake /\ u.deadline = t.deadline
          /\ u.begun = t.begun /\ u.attempts = t.attempts /\ u.late = t.late
      BY <2>1 DEF Thread
    <3> HIDE DEF u
    <3>6. Within(u)
      BY <2>1, <3>1, <3>4, <3>5 DEF Within, Latest
    <3>7. QED
      BY <3>1, <3>6, OneStepWithin
  <2>15. ASSUME SeesTimeLeft(c) PROVE AllWithin'
    <3> DEFINE u == [t EXCEPT !.pc = "drowsy", !.reading = clock]
    <3>1. /\ t.pc = "refused" /\ clock < t.deadline /\ clock' = clock
          /\ thread' = [thread EXCEPT ![c] = u]
      BY <2>15 DEF SeesTimeLeft, At, limiterVars
    <3>2. /\ u.pc = "drowsy" /\ u.reading = clock /\ u.deadline = t.deadline
          /\ u.begun = t.begun /\ u.attempts = t.attempts /\ u.late = t.late
      BY <2>1 DEF Thread
    <3> HIDE DEF u
    <3>3. Latest(u) = Latest(t) /\ t.attempts < MaxAttempts
      BY <2>1, <3>1, <3>2 DEF Latest, Within
    <3>4. /\ clock <= Latest(t) + AcquireTimeout
          /\ t.deadline <= Latest(t) + AcquireTimeout
      BY <2>1, <3>1 DEF Within
    <3>5. Within(u)
      BY <1>1, <2>1, <3>1, <3>2, <3>3, <3>4, EngineConstants DEF Within
    <3>6. QED
      BY <3>1, <3>5, OneStepWithin
  <2>7. ASSUME AcquireTimedOut(c) \/ Succeed(c) \/ Rejected(c) PROVE AllWithin'
    <3>1. thread' = [thread EXCEPT ![c] = Idle] /\ clock' = clock
      BY <2>7 DEF AcquireTimedOut, Succeed, Rejected, RecordSuccess, DropCall, limiterVars
    <3>2. Within(Idle)
      BY DEF Within, Idle
    <3>3. QED
      BY <3>1, <3>2, OneStepWithin
  <2>8. ASSUME NextAttempt(c) PROVE AllWithin'
    <3>1. /\ t.pc = "backoff" /\ clock' = clock
          /\ thread' = [thread EXCEPT ![c] = Acquiring(t)]
      BY <2>8 DEF NextAttempt, At, limiterVars, EngineInv
    <3>2. clock <= Latest(t) /\ t.attempts < MaxAttempts
      BY <1>1, <2>1, <3>1 DEF Within
    <3>3. Within(Acquiring(t))
      BY <1>1, <2>1, <3>2, AcquiringWithin
    <3>4. QED
      BY <3>1, <3>3, OneStepWithin
  <2>9. ASSUME RecordAndDecide(c) PROVE AllWithin'
    <3>1. /\ t.pc = "limited" /\ clock' = clock
          /\ thread' = [thread EXCEPT ![c] = AfterFailure(t, t.wait)]
      BY <2>9 DEF RecordAndDecide, RecordRateLimit, At
    <3>2. clock <= Latest(t) + AcquireTimeout + CallTimeout /\ t.wait \in Hint
      BY <2>1, <3>1 DEF Within, FitToCall
    <3>3. Within(AfterFailure(t, t.wait))
      BY <1>1, <2>1, <3>2, AfterFailureWithin
    <3>4. QED
      BY <3>1, <3>3, OneStepWithin
  <2>10. ASSUME t.pc = "calling"
         PROVE  clock <= Latest(t) + AcquireTimeout + CallTimeout /\ t.attempts < MaxAttempts
    BY <1>1, <2>1, <2>10, EngineConstants DEF Within
  <2>11. ASSUME NEW h \in Header
         PROVE  /\ Asked(t, h) \in Thread /\ HintOf(h, clock) \in Hint
                /\ Latest(Asked(t, h)) = Latest(t) /\ Asked(t, h).attempts = t.attempts
                /\ Asked(t, h).begun = t.begun /\ Asked(t, h).late = t.late
    <3>1. Asked(t, h) \in Thread /\ Asked(t, h).attempts = t.attempts
      BY <1>1, <2>1, AskedIsHinted, LimiterConstants DEF Reading
    <3>2. Asked(t, h).begun = t.begun /\ Asked(t, h).late = t.late
      BY <2>1 DEF Asked, Thread
    <3>3. QED
      BY <1>1, <3>1, <3>2, EngineConstants DEF Latest
  <2>12. ASSUME NEW h \in Header, RateLimited(c, h) PROVE AllWithin'
    <3> DEFINE a == Asked(t, h)
               w == HintOf(h, clock)
               u == [a EXCEPT !.pc = "limited", !.reading = clock, !.wait = w, !.wake = 0]
    <3>1. t.pc = "calling" /\ clock' = clock /\ thread' = [thread EXCEPT ![c] = u]
      BY <2>12 DEF RateLimited, limiterVars, At, EngineInv
    <3>2. a \in Thread /\ a.begun = t.begun /\ a.attempts = t.attempts /\ a.late = t.late
      BY <2>11
    <3>3. u.pc = "limited" /\ u.begun = t.begun /\ u.attempts = t.attempts /\ u.late = t.late
      <4> HIDE DEF a, w
      <4>1. QED
        BY <3>2 DEF Thread
    <3> HIDE DEF u
    <3>4. Within(u)
      BY <2>10, <3>1, <3>3 DEF Within, Latest
    <3>5. QED
      BY <3>1, <3>4, OneStepWithin
  <2>13. ASSUME NEW h \in Header, Unavailable(c, h) PROVE AllWithin'
    <3> DEFINE a == Asked(t, h)
               w == HintOf(h, clock)
    <3>1. /\ t.pc = "calling" /\ clock' = clock
          /\ thread' = [thread EXCEPT ![c] = AfterFailure(a, w)]
      BY <2>13 DEF Unavailable, DropCall, At
    <3>2. a \in Thread /\ w \in Hint /\ Latest(a) = Latest(t)
      BY <2>11
    <3> HIDE DEF a, w
    <3>3. Within(AfterFailure(a, w))
      BY <1>1, <2>10, <3>1, <3>2, AfterFailureWithin
    <3>4. QED
      BY <3>1, <3>3, OneStepWithin
  <2>14. QED
    BY <1>6, <2>2, <2>3, <2>5, <2>6, <2>7, <2>8, <2>9, <2>12, <2>13, <2>15
       DEF ThreadStep, Answer
<1>7. QED
  BY <1>3, <1>4, <1>5, <1>6 DEF EngineNext, CallerStep

\* Within the latest of the last attempt is within the time AnsweredInTime gives.
LEMMA WithinIsInTime ==
  ASSUME BoundedWaits, EngineInv, AllPatient, AllWithin
  PROVE  AnsweredInTime
<1> SUFFICES ASSUME NEW c \in Caller, ~At(c, "idle")
             PROVE  clock <= thread[c].begun + MaxAttempts * (AcquireTimeout + CallTimeout)
                                            + (MaxAttempts - 1) * LongestWait
                                            + thread[c].late
  BY DEF AnsweredInTime
<1> DEFINE t == thread[c]
           acts == AcquireTimeout + CallTimeout
<1>1. /\ t \in Thread /\ Within(t) /\ t.pc # "idle" /\ Latest(t) \in Nat /\ clock \in Nat
      /\ t.attempts \in Nat /\ t.begun \in Nat /\ t.late \in Nat
  BY LatestIsTime, LimiterConstants DEF AllPatient, AllWithin, At, Thread, EngineInv
<1>2. t.pc \in Label
  BY <1>1 DEF Thread
<1> HIDE DEF t
<1>3. clock <= Latest(t) + acts
  BY <1>1, <1>2, EngineConstants DEF Within, Label
<1>4. acts \in Nat /\ LongestWait \in Nat /\ MaxAttempts \in Nat
  BY WaitsAreBounded, EngineConstants
<1>5. Turn = acts + LongestWait
  BY DEF Turn
<1> HIDE DEF acts
<1>6. t.attempts <= MaxAttempts - 1
  BY <1>1, <1>4 DEF Within
<1>7. ASSUME NEW m \in Nat, NEW n \in Nat, m <= n - 1, NEW x \in Nat, NEW y \in Nat
      PROVE  m * (x + y) + x <= n * x + (n - 1) * y
  <2>1. PICK k \in Nat : n = m + 1 + k
    <3>1. n - m - 1 \in Nat /\ n = m + 1 + (n - m - 1)
      BY <1>7
    <3>2. QED
      BY <3>1
  <2>2. n * x = m * x + x + k * x /\ (n - 1) * y = m * y + k * y
    BY <2>1
  <2>3. m * (x + y) = m * x + m * y /\ m * x \in Nat /\ m * y \in Nat
    OBVIOUS
  <2>4. k * x \in Nat /\ k * y \in Nat
    OBVIOUS
  <2> QED
    BY <2>2, <2>3, <2>4
<1>8. t.attempts * Turn + acts
        <= MaxAttempts * acts + (MaxAttempts - 1) * LongestWait
  BY <1>1, <1>4, <1>5, <1>6, <1>7
<1>9. t.attempts * Turn \in Nat
  <2>1. \A m, n \in Nat : m * n \in Nat /\ m + n \in Nat
    OBVIOUS
  <2>2. QED
    BY <1>1, <1>4, <1>5, <2>1
<1>10. MaxAttempts * acts \in Nat /\ (MaxAttempts - 1) * LongestWait \in Nat
  <2>1. \A m, n \in Nat : m * n \in Nat
    OBVIOUS
  <2>2. MaxAttempts - 1 \in Nat
    BY <1>4 DEF BoundedWaits
  <2>3. QED
    BY <1>4, <2>1, <2>2
<1>11. clock <= t.begun + MaxAttempts * acts + (MaxAttempts - 1) * LongestWait + t.late
  <2>1. clock <= t.begun + t.attempts * Turn + t.late + acts
    BY <1>3 DEF Latest
  <2> HIDE DEF Turn
  <2>2. QED
    BY <1>1, <1>4, <1>8, <1>9, <1>10, <2>1
<1>12. QED
  BY <1>11 DEF t, acts

\* A request is answered within its attempts' acquire and call timeouts, the
\* longest waits between them and the time its thread was kept from running,
\* whatever the server answers, however many callers share the limiter, and
\* wherever between its looks at the clock and its sleeps it was held up.
THEOREM AnswersAreInTime ==
  ASSUME BoundedWaits
  PROVE  EngineSpec => []AnsweredInTime
<1>1. EngineInit => AllWithin
  BY DEF EngineInit, AllWithin, Within, Idle
<1>2. EngineInv /\ AllPatient /\ AllWithin => AnsweredInTime
  BY WithinIsInTime
<1>3. EngineInv /\ AllPatient /\ AllWithin /\ [EngineNext]_engineVars => AllWithin'
  BY WithinStep
<1>4. QED
  BY <1>1, <1>2, <1>3, EngineStaysPatient, PTL DEF EngineSpec

=============================================================================
