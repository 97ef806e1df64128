---------------------------- MODULE SharedBudget ----------------------------
(***************************************************************************)
(* What the process-wide limiter promises about the requests it admits,    *)
(* with no bucket, circuit or priority in sight.                           *)
(*                                                                         *)
(* For each provider an observation window opens with some allowance (at   *)
(* most one minute's quota) and from then on earns the provider's rate.    *)
(* However the callers interleave, what is admitted in the window never    *)
(* exceeds the allowance plus what was earned.  A new window may open at   *)
(* any moment, so the promise covers every window of every behaviour.      *)
(***************************************************************************)
EXTENDS Integers

CONSTANTS
  Provider,
  Rate(_),     \* requests per minute of a provider
  Minute,      \* clock ticks in a minute
  StartTime,   \* clock when the process starts
  MaxClock     \* bound: the clock stops here

VARIABLES
  clock,
  since,       \* since[p]: clock at which p's current window opened
  allowance,   \* allowance[p]: Minute-ths of a request the window opened with
  admitted     \* admitted[p]: requests admitted since then

budgetVars == <<clock, since, allowance, admitted>>

Earned(p) == Rate(p) * (clock - since[p])

Init ==
  /\ clock = StartTime
  /\ since = [p \in Provider |-> StartTime]
  /\ allowance = [p \in Provider |-> Rate(p) * Minute]
  /\ admitted = [p \in Provider |-> 0]

Tick ==
  /\ clock < MaxClock
  /\ clock' = clock + 1
  /\ UNCHANGED <<since, allowance, admitted>>

OpenWindow(p) ==
  /\ \E s \in StartTime..clock : since' = [since EXCEPT ![p] = s]
  /\ \E a \in 0..Rate(p) * Minute : allowance' = [allowance EXCEPT ![p] = a]
  /\ admitted' = [admitted EXCEPT ![p] = 0]
  /\ UNCHANGED clock

Admit(p) ==
  /\ (admitted[p] + 1) * Minute <= allowance[p] + Earned(p)
  /\ admitted' = [admitted EXCEPT ![p] = @ + 1]
  /\ UNCHANGED <<clock, since, allowance>>

Next == Tick \/ \E p \in Provider : OpenWindow(p) \/ Admit(p)

Spec == Init /\ [][Next]_budgetVars

=============================================================================
