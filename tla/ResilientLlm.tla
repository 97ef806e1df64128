---------------------------- MODULE ResilientLlm ----------------------------
(***************************************************************************)
(* The resilient call path, host/src/llm/engine.rs: every caller is a      *)
(* thread running complete() - acquire a slot from the shared limiter,     *)
(* call the client, record the outcome, retry or give up.  The retry       *)
(* policy is host/src/llm/failure.rs; the server's answers are those       *)
(* host/src/llm/openrouter.rs tells apart.                                 *)
(*                                                                         *)
(* A thread may be preempted between reading the clock and taking the      *)
(* limiter's lock, between a refusal and its next look at the clock, and   *)
(* between that look and the sleep it begins, so those are separate steps. *)
(***************************************************************************)
EXTENDS RateLimiter

CONSTANTS
  Caller,
  AcquireTimeout,      \* acquire_timeout_ms
  BaseBackoff, MaxBackoff, MaxAttempts,   \* RetryPolicy
  Header,              \* wait headers a failure response may carry
  CallTimeout,         \* the HTTP agent's timeout
  LastBegin,           \* bound: no request begins after this time
  MaxLate              \* bound: ticks a request is kept from running (FairSpec)

HeaderKind == {"none", "after", "reset"}

VARIABLE thread        \* thread[c]: the locals of c's complete()

engineVars == <<limiterVars, thread>>

\* idle: not in complete().  asleep: about to poll the limiter once awake.
\* polling: holds a clock reading, wants the lock.  refused: has a wait to
\* honour.  drowsy: has seen time left before its deadline, is about to sleep.
\* calling: in the client.  limited: holds a 429 and a reading, wants the lock.
\* backoff: sleeping before the next attempt.
Label == {"idle", "asleep", "polling", "refused", "drowsy", "calling", "limited",
          "backoff"}

AnyProvider == CHOOSE p \in Provider : TRUE

\* wait is what a refusal or a 429 said; wake ends a sleep or the HTTP timeout.
\* History: asked is the earliest time the server wants the next call, begun
\* when the request started, late the ticks that passed while it could have run.
Thread == [pc : Label, provider : Provider, priority : Priority,
           attempts : Nat, deadline : Nat, reading : Nat, wait : Nat, wake : Nat,
           asked : Nat, begun : Nat, late : Nat]

Idle == [pc |-> "idle", provider |-> AnyProvider, priority |-> "Low",
         attempts |-> 0, deadline |-> 0, reading |-> 0, wait |-> 0, wake |-> 0,
         asked |-> 0, begun |-> 0, late |-> 0]

EngineTypeOK == TypeOK /\ thread \in [Caller -> Thread]

EngineInit == Init /\ thread = [c \in Caller |-> Idle]

At(c, label) == thread[c].pc = label

-----------------------------------------------------------------------------
(* RetryPolicy *)

Backoff(failed) == Smaller(BaseBackoff * 2^(failed - 1), MaxBackoff)

\* decide(): TRUE is GiveUp, for a retryable class.
GivesUp(failed) == failed >= MaxAttempts

\* Variant of RetryDelay: the smaller of the two.
RetryDelaySmaller(failed, hint) == Smaller(hint, Backoff(failed))

RetryDelay(failed, hint) == Larger(hint, Backoff(failed))

\* status_error(): the wait reported for a failure.  A Retry-After header is a
\* duration; the reset header is an absolute time and is passed on unchanged.
HintOf(h, now) ==
  CASE h.kind = "none"  -> 0
    [] h.kind = "after" -> h.value
    [] h.kind = "reset" -> now + h.value

\* The constants make sense: there is a provider to call, every wait a header
\* can announce is among the limiter's hints, and backoffs are ticks (the
\* provers know nothing of powers of two).
ASSUME EngineConstants ==
  /\ Provider # {}
  /\ AcquireTimeout \in Nat
  /\ BaseBackoff \in Nat
  /\ MaxBackoff \in Nat
  /\ MaxAttempts \in Nat
  /\ CallTimeout \in Nat
  /\ MaxLate \in Nat
  /\ \A failed \in 1..MaxAttempts : Backoff(failed) \in Nat
  /\ Header \subseteq [kind : HeaderKind, value : Nat]
  /\ \A h \in Header, now \in StartTime..MaxClock : HintOf(h, now) \in Hint

\* Variant of AfterFailure: the count of failed attempts is not carried over.
AfterFailureForgets(t, hint) ==
  IF GivesUp(t.attempts + 1) THEN Idle
  ELSE [t EXCEPT !.pc = "backoff", !.wait = 0, !.reading = 0,
                 !.wake = clock + RetryDelay(1, hint)]

\* The thread after a retryable failure: backing off, or done.
AfterFailure(t, hint) ==
  LET failed == t.attempts + 1 IN
  IF GivesUp(failed) THEN Idle
  ELSE [t EXCEPT !.pc = "backoff", !.attempts = failed, !.wait = 0, !.reading = 0,
                 !.wake = clock + RetryDelay(failed, hint)]

\* What a failure response asks for, remembered for the properties.
Asked(t, h) ==
  [t EXCEPT !.asked = clock + (IF h.kind = "after" THEN h.value ELSE 0)]

-----------------------------------------------------------------------------
(* complete() and acquire() *)

\* Enter acquire: fix the deadline, then poll at once.
Acquiring(t) ==
  [t EXCEPT !.pc = "asleep", !.deadline = clock + AcquireTimeout, !.wake = clock]

Begin(c, p, pr) ==
  /\ At(c, "idle")
  /\ clock <= LastBegin
  /\ thread' = [thread EXCEPT ![c] =
       Acquiring([Idle EXCEPT !.provider = p, !.priority = pr, !.begun = clock])]
  /\ UNCHANGED limiterVars

ReadClock(c) ==
  /\ At(c, "asleep")
  /\ clock >= thread[c].wake
  /\ thread' = [thread EXCEPT ![c] = [@ EXCEPT !.pc = "polling", !.reading = clock, !.wake = 0]]
  /\ UNCHANGED limiterVars

Acquire(c) ==
  LET t == thread[c] IN
  /\ At(c, "polling")
  /\ Grant(t.provider, t.priority, t.reading)
  /\ thread' = [thread EXCEPT ![c] =
       [@ EXCEPT !.pc = "calling", !.deadline = 0, !.reading = 0,
                 !.wake = clock + CallTimeout]]

Refused(c, ticks) ==
  thread' = [thread EXCEPT ![c] = [@ EXCEPT !.pc = "refused", !.wait = ticks, !.reading = 0]]

RefusedForTokens(c) ==
  LET t == thread[c] IN
  /\ At(c, "polling")
  /\ RefuseForTokens(t.provider, t.priority, t.reading)
  /\ Refused(c, BucketWait(t.provider, t.priority, t.reading))

RefusedForCircuit(c) ==
  /\ At(c, "polling")
  /\ RefuseForCircuit(thread[c].reading)
  /\ Refused(c, CircuitWait(thread[c].reading))

\* A refused thread looks at the clock and finds time left before its deadline...
SeesTimeLeft(c) ==
  /\ At(c, "refused")
  /\ clock < thread[c].deadline
  /\ thread' = [thread EXCEPT ![c] = [@ EXCEPT !.pc = "drowsy", !.reading = clock]]
  /\ UNCHANGED limiterVars

\* Variant of FallAsleep: the whole wait, deadline or not.
FallAsleepForTheWait(c) ==
  LET t == thread[c] IN
  /\ At(c, "drowsy")
  /\ thread' = [thread EXCEPT ![c] =
       [@ EXCEPT !.pc = "asleep", !.wait = 0, !.reading = 0,
                 !.wake = clock + Larger(t.wait, 1)]]
  /\ UNCHANGED limiterVars

\* ...and sleeps the wait out, but no longer than that look left to the
\* deadline, and never zero.  If time passed since the look, it oversleeps.
FallAsleep(c) ==
  LET t == thread[c] IN
  /\ At(c, "drowsy")
  /\ thread' = [thread EXCEPT ![c] =
       [@ EXCEPT !.pc = "asleep", !.wait = 0, !.reading = 0,
                 !.wake = clock + Larger(Smaller(t.wait, t.deadline - t.reading), 1)]]
  /\ UNCHANGED limiterVars

\* The acquire timed out: `?` ends the request whatever attempts are left.
AcquireTimedOut(c) ==
  /\ At(c, "refused")
  /\ clock >= thread[c].deadline
  /\ thread' = [thread EXCEPT ![c] = Idle]
  /\ UNCHANGED limiterVars

Succeed(c) ==
  /\ At(c, "calling")
  /\ RecordSuccess(thread[c].provider)
  /\ thread' = [thread EXCEPT ![c] = Idle]

\* A 429 arrives and the clock is read for the limiter...
RateLimited(c, h) ==
  /\ At(c, "calling")
  /\ thread' = [thread EXCEPT ![c] =
       [Asked(@, h) EXCEPT !.pc = "limited", !.reading = clock,
                           !.wait = HintOf(h, clock), !.wake = 0]]
  /\ UNCHANGED limiterVars

\* Variant of RecordAndDecide: the circuit is told, the bucket is not drained.
RecordAndDecideUndrained(c) ==
  LET t == thread[c] IN
  /\ At(c, "limited")
  /\ circuit' = AfterRateLimit(t.wait, t.reading)
  /\ inflight' = [inflight EXCEPT ![t.provider] = @ - 1]
  /\ UNCHANGED <<clock, made, bucket, window>>
  /\ thread' = [thread EXCEPT ![c] = AfterFailure(t, t.wait)]

\* ...and is recorded once the lock is taken; then the policy decides.
RecordAndDecide(c) ==
  LET t == thread[c] IN
  /\ At(c, "limited")
  /\ RecordRateLimit(t.provider, t.wait, t.reading)
  /\ thread' = [thread EXCEPT ![c] = AfterFailure(t, t.wait)]

\* A 5xx or transport failure: retried, but the limiter is not told.
Unavailable(c, h) ==
  LET t == thread[c] IN
  /\ At(c, "calling")
  /\ DropCall(t.provider)
  /\ thread' = [thread EXCEPT ![c] = AfterFailure(Asked(t, h), HintOf(h, clock))]

\* Quota, invalid request, unknown: permanent.
Rejected(c) ==
  /\ At(c, "calling")
  /\ DropCall(thread[c].provider)
  /\ thread' = [thread EXCEPT ![c] = Idle]

NextAttempt(c) ==
  /\ At(c, "backoff")
  /\ clock >= thread[c].wake
  /\ thread' = [thread EXCEPT ![c] = Acquiring(@)]
  /\ UNCHANGED limiterVars

-----------------------------------------------------------------------------

\* What a thread does once it is in complete(); the answers come from outside
\* but the HTTP timeout makes sure that one comes.
Answer(c) ==
  \/ Succeed(c)
  \/ Rejected(c)
  \/ \E h \in Header : RateLimited(c, h) \/ Unavailable(c, h)

ThreadStep(c) ==
  \/ ReadClock(c)
  \/ Acquire(c)
  \/ RefusedForTokens(c)
  \/ RefusedForCircuit(c)
  \/ SeesTimeLeft(c)
  \/ FallAsleep(c)
  \/ AcquireTimedOut(c)
  \/ RecordAndDecide(c)
  \/ NextAttempt(c)
  \/ Answer(c)

CallerStep ==
  \E c \in Caller :
    \/ ThreadStep(c)
    \/ \E p \in Provider, pr \in Priority : Begin(c, p, pr)

\* Out of complete(), sleeping, or waiting for an answer that is not overdue:
\* a thread in any other state could run.
Waiting(c) ==
  \/ At(c, "idle")
  \/ thread[c].pc \in {"asleep", "backoff", "calling"} /\ clock < thread[c].wake

\* Time passes at any moment: threads may be preempted for as long as it likes.
TimePasses ==
  /\ Tick
  /\ thread' = [c \in Caller |->
                  IF Waiting(c) THEN thread[c] ELSE [thread[c] EXCEPT !.late = @ + 1]]

EngineNext == TimePasses \/ CallerStep

EngineSpec == EngineInit /\ [][EngineNext]_engineVars

\* A machine that keeps no request from running for more than MaxLate ticks in
\* all, and in which every thread that can run does run in the end.
TimePassesInTime == TimePasses /\ \A c \in Caller : Waiting(c) \/ thread[c].late < MaxLate

FairNext == TimePassesInTime \/ CallerStep

FairSpec ==
  /\ EngineInit
  /\ [][FairNext]_engineVars
  /\ WF_engineVars(TimePassesInTime)
  /\ \A c \in Caller : WF_engineVars(ThreadStep(c))

-----------------------------------------------------------------------------
(* Properties *)

\* A retry is never admitted sooner than the provider asked with Retry-After,
\* through backoff, the new acquire and its polls.
HintHonoured ==
  [][\A c \in Caller :
       At(c, "polling") /\ thread'[c].pc = "calling" => clock >= thread[c].asked
    ]_engineVars

\* The callers use the shared limiter only as it is meant to be used, so all
\* it guarantees holds of them: nothing is admitted past it, every admitted
\* call is recorded or dropped once.
ImplementsLimiter == Spec

\* complete() returns within its acquires, its calls and the backoffs between
\* them, whatever the server answers and whatever waits the limiter tells it: any
\* time beyond that is time the thread was kept from running.  So a deadline may
\* be overslept, but by no more than that.
LongestWait == Larger(MaxBackoff, CHOOSE d \in Hint : \A e \in Hint : d >= e)

AnsweredInTime ==
  \A c \in Caller :
    LET t == thread[c] IN
    ~At(c, "idle") =>
      clock <= t.begun + MaxAttempts * (AcquireTimeout + CallTimeout)
                       + (MaxAttempts - 1) * LongestWait + t.late

\* Every request ends: with a response, a permanent error, attempts exhausted
\* or an acquire timeout.
EveryRequestEnds ==
  \A c \in Caller : ~At(c, "idle") ~> At(c, "idle")

=============================================================================
