---------------------------- MODULE RateLimiter -----------------------------
(***************************************************************************)
(* The process-wide LLM rate limiter: host/src/llm/limiter.rs over the     *)
(* TokenBucket and CircuitBreaker of host/src/llm/ratelimit.rs.            *)
(*                                                                         *)
(* The limiter is one Mutex, so every operation is atomic; but each caller *)
(* reads the clock BEFORE it takes the lock, so the time an operation      *)
(* works with ("at") may be any earlier reading.                           *)
(*                                                                         *)
(* Units.  A minute is Minute ticks and a token is Minute units; a bucket  *)
(* sized to q requests per minute then holds q * Minute units and earns    *)
(* exactly q units per tick, so the code's fractional tokens are integers. *)
(* The one reserve fraction f of the configuration is given as the units    *)
(* f * Minute it holds back for each token of a bucket's capacity.         *)
(***************************************************************************)
EXTENDS Integers

CONSTANTS
  Provider,        \* LLM backends
  Rpm,             \* Rpm[p]: the requests per minute p is configured with
  Seeded,          \* providers given a bucket at start (with_provider)
  NormalReserve,   \* normal_reserve_fraction, times Minute: one for all providers
  Minute,          \* ticks per minute
  FailureThreshold, SuccessThreshold,
  Cooldown,        \* ticks an open circuit stays open
  Hint,            \* server-supplied waits, in ticks (0: no hint)
  StartTime,       \* clock when the process starts
  MaxClock         \* bound: the clock stops here

Priority == {"Low", "Normal", "Manual"}

Larger(a, b) == IF a >= b THEN a ELSE b
Smaller(a, b) == IF a <= b THEN a ELSE b
CeilDiv(a, b) == (a + b - 1) \div b

\* Both constructors raise a zero limit to one: rpm.max(1), threshold.max(1).
Quota(p) == Larger(Rpm[p], 1)
TripAt == Larger(FailureThreshold, 1)
CloseAt == Larger(SuccessThreshold, 1)

Capacity(p) == Quota(p) * Minute

ASSUME LimiterConstants ==
  /\ Rpm \in [Provider -> Nat]
  /\ Seeded \subseteq Provider
  /\ NormalReserve \in Nat
  /\ Minute \in Nat \ {0}
  /\ FailureThreshold \in Nat
  /\ SuccessThreshold \in Nat
  /\ Cooldown \in Nat
  /\ Hint \subseteq Nat
  /\ StartTime \in Nat
  /\ MaxClock \in Nat /\ StartTime <= MaxClock

VARIABLES
  clock,
  circuit,     \* the shared CircuitBreaker
  made,        \* providers whose bucket exists in the map
  bucket,      \* bucket[p]: tokens (in units) and time of the last refill
  inflight,    \* inflight[p]: admitted calls whose outcome is not recorded yet
  window       \* history, window[p]: what p was admitted since the window opened

limiterVars == <<clock, circuit, made, bucket, inflight, window>>

CircuitState == {"Closed", "Open", "HalfOpen"}

TypeOK ==
  /\ clock \in Nat
  /\ circuit \in [state : CircuitState, failures : Nat, successes : Nat,
                  openUntil : Nat]
  /\ made \subseteq Provider
  /\ bucket \in [Provider -> [tokens : Nat, last : Nat]]
  /\ inflight \in [Provider -> Nat]
  /\ window \in [Provider -> [since : Nat, allowance : Nat,
                              manual : Nat, normal : Nat, low : Nat]]

-----------------------------------------------------------------------------
(* TokenBucket *)

FullBucket(p, at) == [tokens |-> Capacity(p), last |-> at]

\* Variants of Refill: one lets the last-refill time move backwards with the
\* reading, one forgets the cap.
RefillRewinds(p, b, at) ==
  [tokens |-> IF at > b.last
              THEN Smaller(b.tokens + Quota(p) * (at - b.last), Capacity(p))
              ELSE b.tokens,
   last |-> at]

RefillUncapped(p, b, at) ==
  IF at > b.last
  THEN [tokens |-> b.tokens + Quota(p) * (at - b.last), last |-> at]
  ELSE b

\* One that credits whole tokens only, and forgets the fraction each time.
RefillWhole(p, b, at) ==
  IF at > b.last
  THEN [tokens |-> Smaller(b.tokens + Minute * ((Quota(p) * (at - b.last)) \div Minute),
                           Capacity(p)),
        last |-> at]
  ELSE b

\* Time that appears to run backwards earns nothing.
Refill(p, b, at) ==
  IF at > b.last
  THEN [tokens |-> Smaller(b.tokens + Quota(p) * (at - b.last), Capacity(p)),
        last |-> at]
  ELSE b

\* The bucket an operation finds: a missing one is created full.
BucketAt(p, at) ==
  IF p \in made THEN Refill(p, bucket[p], at) ELSE FullBucket(p, at)

\* Units a request of this priority must leave in the bucket.
Reserve(p, pr) ==
  CASE pr = "Manual" -> 0
    [] pr = "Normal" -> Quota(p) * NormalReserve
    [] pr = "Low"    -> 2 * (Quota(p) * NormalReserve)

Price(p, pr) == Minute + Reserve(p, pr)

HasTokens(p, pr, at) == BucketAt(p, at).tokens >= Price(p, pr)

\* Variant of BucketWait: rounds down.
BucketWaitFloor(p, pr, at) ==
  LET have == BucketAt(p, at).tokens IN
  IF have >= Price(p, pr) THEN 0 ELSE (Price(p, pr) - have) \div Quota(p)

\* Ticks until the bucket holds the price; 0 if it already does.
BucketWait(p, pr, at) ==
  LET have == BucketAt(p, at).tokens IN
  IF have >= Price(p, pr) THEN 0
  ELSE CeilDiv(Price(p, pr) - have, Quota(p))

-----------------------------------------------------------------------------
(* CircuitBreaker *)

NewCircuit == [state |-> "Closed", failures |-> 0, successes |-> 0,
               openUntil |-> 0]

Allows(at) == circuit.state = "Open" => at >= circuit.openUntil

\* allows(): an open circuit whose cooldown elapsed becomes half-open.
AfterAllows ==
  IF circuit.state = "Open"
  THEN [circuit EXCEPT !.state = "HalfOpen", !.successes = 0]
  ELSE circuit

CircuitWait(at) ==
  IF circuit.state = "Open" /\ circuit.openUntil > at
  THEN circuit.openUntil - at ELSE 0

AfterSuccess ==
  IF circuit.state # "HalfOpen"
  THEN [circuit EXCEPT !.state = "Closed", !.failures = 0]
  ELSE IF circuit.successes + 1 >= CloseAt
       THEN [circuit EXCEPT !.state = "Closed", !.failures = 0, !.successes = 0]
       ELSE [circuit EXCEPT !.successes = @ + 1]

AfterRateLimit(hint, at) ==
  LET failures == circuit.failures + 1 IN
  IF circuit.state = "HalfOpen" \/ failures >= TripAt
  THEN [circuit EXCEPT !.failures = failures, !.state = "Open",
                       !.openUntil = at + Larger(hint, Cooldown)]
  ELSE [circuit EXCEPT !.failures = failures]

-----------------------------------------------------------------------------
(* History: the window each provider is observed through. *)

FreshWindow(b) ==
  [since |-> b.last, allowance |-> b.tokens, manual |-> 0, normal |-> 0, low |-> 0]

Counted(w, pr) ==
  CASE pr = "Manual" -> [w EXCEPT !.manual = @ + 1]
    [] pr = "Normal" -> [w EXCEPT !.normal = @ + 1]
    [] pr = "Low"    -> [w EXCEPT !.low = @ + 1]

Admitted(p) == window[p].manual + window[p].normal + window[p].low

-----------------------------------------------------------------------------
(* GlobalRateLimiter *)

Init ==
  /\ clock = StartTime
  /\ circuit = NewCircuit
  /\ made = Seeded
  /\ bucket = [p \in Provider |-> FullBucket(p, StartTime)]
  /\ inflight = [p \in Provider |-> 0]
  /\ window = [p \in Provider |-> FreshWindow(FullBucket(p, StartTime))]

\* try_acquire -> Granted
Grant(p, pr, at) ==
  /\ Allows(at)
  /\ HasTokens(p, pr, at)
  /\ circuit' = AfterAllows
  /\ made' = made \union {p}
  /\ bucket' = [bucket EXCEPT ![p] =
                  [BucketAt(p, at) EXCEPT !.tokens = @ - Minute]]
  /\ inflight' = [inflight EXCEPT ![p] = @ + 1]
  /\ window' = [window EXCEPT ![p] = Counted(@, pr)]
  /\ UNCHANGED clock

\* try_acquire -> RetryAfterMs: the circuit may half-open although nobody passes.
RefuseForTokens(p, pr, at) ==
  /\ Allows(at)
  /\ ~HasTokens(p, pr, at)
  /\ circuit' = AfterAllows
  /\ made' = made \union {p}
  /\ bucket' = [bucket EXCEPT ![p] = BucketAt(p, at)]
  /\ UNCHANGED <<clock, inflight, window>>

\* try_acquire -> CircuitOpenMs
RefuseForCircuit(at) ==
  /\ ~Allows(at)
  /\ UNCHANGED limiterVars

RecordSuccess(p) ==
  /\ inflight[p] > 0
  /\ circuit' = AfterSuccess
  /\ inflight' = [inflight EXCEPT ![p] = @ - 1]
  /\ UNCHANGED <<clock, made, bucket, window>>

\* Variant of RecordRateLimit: every bucket is drained, not the provider's alone.
RecordRateLimitDrainsAll(p, hint, at) ==
  LET drained == [Refill(p, bucket[p], at) EXCEPT !.tokens = 0] IN
  /\ inflight[p] > 0
  /\ circuit' = AfterRateLimit(hint, at)
  /\ bucket' = [q \in Provider |-> IF q \in made THEN drained ELSE bucket[q]]
  /\ window' = [window EXCEPT ![p] = FreshWindow(drained)]
  /\ inflight' = [inflight EXCEPT ![p] = @ - 1]
  /\ UNCHANGED <<clock, made>>

\* record_rate_limit: the shared circuit, then the provider's bucket if it exists.
RecordRateLimit(p, hint, at) ==
  LET drained == [Refill(p, bucket[p], at) EXCEPT !.tokens = 0] IN
  /\ inflight[p] > 0
  /\ circuit' = AfterRateLimit(hint, at)
  /\ IF p \in made
     THEN /\ bucket' = [bucket EXCEPT ![p] = drained]
          /\ window' = [window EXCEPT ![p] = FreshWindow(drained)]
     ELSE UNCHANGED <<bucket, window>>
  /\ inflight' = [inflight EXCEPT ![p] = @ - 1]
  /\ UNCHANGED <<clock, made>>

\* A call that fails otherwise tells the limiter nothing.
DropCall(p) ==
  /\ inflight[p] > 0
  /\ inflight' = [inflight EXCEPT ![p] = @ - 1]
  /\ UNCHANGED <<clock, circuit, made, bucket, window>>

Tick ==
  /\ clock < MaxClock
  /\ clock' = clock + 1
  /\ UNCHANGED <<circuit, made, bucket, inflight, window>>

\* History only: start observing p afresh, from its last refill.
OpenWindow(p) ==
  /\ window' = [window EXCEPT ![p] = FreshWindow(bucket[p])]
  /\ UNCHANGED <<clock, circuit, made, bucket, inflight>>

Reading == StartTime..clock

Next ==
  \/ Tick
  \/ \E at \in Reading : RefuseForCircuit(at)
  \/ \E p \in Provider :
       \/ RecordSuccess(p)
       \/ DropCall(p)
       \/ OpenWindow(p)
       \/ \E at \in Reading :
            \/ \E pr \in Priority : Grant(p, pr, at) \/ RefuseForTokens(p, pr, at)
            \/ \E hint \in Hint : RecordRateLimit(p, hint, at)

Spec == Init /\ [][Next]_limiterVars

-----------------------------------------------------------------------------
(* Properties *)

\* Whatever the interleaving and however old the readings, a window never
\* admits more than it opened with plus what the rate earned since; what is
\* still in the bucket is already counted against it.
BudgetKept ==
  \A p \in Provider :
    LET w == window[p] IN
    /\ w.since <= bucket[p].last
    /\ Admitted(p) * Minute + bucket[p].tokens
         <= w.allowance + Quota(p) * (bucket[p].last - w.since)

\* A bucket never holds more than its capacity and never claims a refill from
\* the future; one not made yet is as good as full.  (With BudgetKept, the
\* inductive invariant of the proofs.)
BucketsSound ==
  /\ StartTime <= clock
  /\ \A p \in Provider :
       /\ bucket[p].tokens <= Capacity(p)
       /\ bucket[p].last \in StartTime..clock
       /\ p \notin made => bucket[p] = FullBucket(p, StartTime)
       /\ window[p].allowance <= Capacity(p)
       /\ window[p].since >= StartTime

\* Reserve headroom: in any window, only Manual requests can have eaten into
\* the Normal reserve, and only Manual and Normal ones into the Low reserve.
\* So no amount of background traffic makes a Manual request wait for the
\* tokens it was promised.
Headroom(p) ==
  LET w == window[p]
      left == bucket[p].tokens IN
  /\ left + Minute * w.manual >= Smaller(w.allowance, Reserve(p, "Normal"))
  /\ left + Minute * (w.manual + w.normal) >= Smaller(w.allowance, Reserve(p, "Low"))

HeadroomKept == \A p \in Provider : Headroom(p)

\* The circuit is closed exactly while the run of failures is short of the
\* threshold, and it cannot sit half-open with the successes it needs: trips,
\* half-opening, late answers and recoveries never leave it in between.
BreakerCoherent ==
  /\ circuit.state = "Closed" <=> circuit.failures < TripAt
  /\ circuit.successes < CloseAt

\* Both: no caller ever finds the limiter in a state it cannot get out of.
LimiterSound == BucketsSound /\ BreakerCoherent

\* The wait reported with a refusal is exact wherever a bucket can hold the
\* price: a caller that sleeps it out finds the tokens (nobody else having taken
\* them), and one tick less is too soon.  Where token and reserve exceed the
\* capacity (one request a minute, and any reserve) the wait leads nowhere: the
\* caller that sleeps it out is refused again, whenever it looks meanwhile.
WaitIsExact ==
  \A p \in Provider, pr \in Priority : \A at \in bucket[p].last..clock :
    LET wait == BucketWait(p, pr, at) IN
    IF Price(p, pr) <= Capacity(p)
    THEN /\ HasTokens(p, pr, at + wait)
         /\ wait > 0 => ~HasTokens(p, pr, at + wait - 1)
    ELSE \A later \in at..(at + wait) : ~HasTokens(p, pr, later)

\* A wait once told stays good: until p admits somebody or hears a 429, nothing
\* changes what its bucket will hold at any later time - not the refused polls
\* of other callers (which refill it, with readings in any order, or make it),
\* nor what befalls another provider.
WaitStaysGood ==
  [][\A p \in Provider :
       inflight'[p] = inflight[p] =>
         \A later \in clock'..MaxClock :
           BucketAt(p, later).tokens' = BucketAt(p, later).tokens
    ]_limiterVars

\* Each provider's window is a behaviour of the shared budget: the limiter, with
\* its lazily made buckets, drains and stale readings, implements it.
Budget ==
  INSTANCE SharedBudget WITH
    Rate <- Quota,
    since <- [p \in Provider |-> window[p].since],
    allowance <- [p \in Provider |-> window[p].allowance],
    admitted <- [p \in Provider |-> Admitted(p)]

ImplementsBudget == Budget!Spec

=============================================================================
