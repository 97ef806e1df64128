----------------------------- MODULE Scheduler ------------------------------
(***************************************************************************)
(* The scheduler: host/src/scheduler.rs over the schedules table of        *)
(* repository/src/schedule.rs and the policy of domain/src/schedule.rs,    *)
(* with the management API of api/src/schedules.rs running beside it.      *)
(*                                                                         *)
(* A driver is whatever calls tick() periodically.  A pass works on the    *)
(* rows list_enabled() returned when it began and on the time it was given;*)
(* runs take as long as they take, and the API changes rows meanwhile.     *)
(***************************************************************************)
EXTENDS Integers, FiniteSets

CONSTANTS
  Schedule,          \* ids
  Driver,
  NextRun(_, _),     \* NextRun(s, t): first due time of s after t, or NoRun
  NoRun,
  Grace, MaxFailures,
  MaxClock, MaxFaults    \* bounds

Time == 0..MaxClock

ASSUME SchedulerConstants ==
  /\ IsFiniteSet(Schedule) /\ Schedule # {}
  /\ Grace \in Nat
  /\ MaxFailures \in Nat
  /\ MaxClock \in Nat
  /\ MaxFaults \in Nat
  /\ NoRun \notin Nat
  /\ \A s \in Schedule, t \in Time :
       NextRun(s, t) # NoRun => NextRun(s, t) \in Nat /\ NextRun(s, t) > t

\* Nothing in the program starts a pass while another is under way.
ASSUME OneDriver == \A c, d \in Driver : c = d

VARIABLES
  clock,
  stored,      \* ids that have a row
  row,         \* row[s]: its execution state
  pass,        \* pass[d]: the tick() d is in
  faults,      \* crashes and failed writes so far
  deleted,     \* history: ids deleted by the user
  paused,      \* history: ids the user paused and did not resume
  excused,     \* history: ids resumed and not run since
  ran,         \* history, ran[s]: the due times s was run for
  again,       \* history: runs for a due time already run, and not excused
  streak       \* history, streak[s]: failed runs in a row

table == <<stored, row>>
history == <<deleted, paused, excused, ran, again, streak>>
vars == <<clock, table, pass, faults, history>>

Row == [nextRun : Nat, failures : Nat, enabled : BOOLEAN]

\* A StoredSchedule as list_enabled() read it.
Entry == [id : Schedule, nextRun : Nat, failures : Nat]

\* idle: not in tick().  scanning: between two schedules.  running: in runner.run.
Pass == [pc : {"idle", "scanning", "running"}, now : Nat,
         pending : SUBSET Entry, entry : Entry]

NoEntry == [id |-> CHOOSE s \in Schedule : TRUE, nextRun |-> 0, failures |-> 0]
NoPass == [pc |-> "idle", now |-> 0, pending |-> {}, entry |-> NoEntry]

TypeOK ==
  /\ clock \in Time
  /\ stored \subseteq Schedule
  /\ row \in [Schedule -> Row]
  /\ pass \in [Driver -> Pass]
  /\ \A d \in Driver : pass[d].now <= clock
  /\ faults \in 0..MaxFaults
  /\ deleted \subseteq Schedule /\ paused \subseteq Schedule
  /\ excused \subseteq Schedule
  /\ ran \in [Schedule -> SUBSET Nat]
  /\ again \in Nat
  /\ streak \in [Schedule -> Nat]

Init ==
  /\ clock = 0
  /\ stored = {}
  /\ row = [s \in Schedule |-> [nextRun |-> 0, failures |-> 0, enabled |-> FALSE]]
  /\ pass = [d \in Driver |-> NoPass]
  /\ faults = 0
  /\ deleted = {} /\ paused = {} /\ excused = {}
  /\ ran = [s \in Schedule |-> {}]
  /\ again = 0
  /\ streak = [s \in Schedule |-> 0]

-----------------------------------------------------------------------------
(* The table *)

CreateSchedule(s, next) ==
  /\ stored' = stored \union {s}
  /\ row' = [row EXCEPT ![s] = [nextRun |-> next, failures |-> 0, enabled |-> TRUE]]

SetEnabled(s, enabled) ==
  /\ row' = [row EXCEPT ![s].enabled = enabled]
  /\ UNCHANGED stored

DeleteSchedule(s) ==
  /\ stored' = stored \ {s}
  /\ UNCHANGED row

EntryOf(s) == [id |-> s, nextRun |-> row[s].nextRun, failures |-> row[s].failures]

ListEnabled == {EntryOf(s) : s \in {r \in stored : row[r].enabled}}

\* update_runtime: an UPDATE by id, so nothing for a row that is gone.
UpdateRuntime(s, next, failures, enabled) ==
  /\ row' = IF s \in stored
            THEN [row EXCEPT ![s] = [nextRun |-> next, failures |-> failures,
                                      enabled |-> enabled]]
            ELSE row
  /\ UNCHANGED stored

-----------------------------------------------------------------------------
(* The management API: each handler holds the repository's lock. *)

Create(s) ==
  /\ s \notin stored \union deleted
  /\ NextRun(s, clock) # NoRun
  /\ CreateSchedule(s, NextRun(s, clock))
  /\ UNCHANGED <<clock, pass, faults, history>>

Pause(s) ==
  /\ s \in stored
  /\ SetEnabled(s, FALSE)
  /\ paused' = paused \union {s}
  /\ UNCHANGED <<clock, pass, faults, deleted, excused, ran, again, streak>>

Resume(s) ==
  /\ s \in stored
  /\ SetEnabled(s, TRUE)
  /\ paused' = paused \ {s}
  /\ excused' = excused \union {s}
  /\ UNCHANGED <<clock, pass, faults, deleted, ran, again, streak>>

Delete(s) ==
  /\ s \in stored
  /\ DeleteSchedule(s)
  /\ deleted' = deleted \union {s}
  /\ UNCHANGED <<clock, pass, faults, paused, excused, ran, again, streak>>

-----------------------------------------------------------------------------
(* tick() *)

\* evaluate_tick
Fate(e, now) ==
  IF e.failures >= MaxFailures THEN "Disable"
  ELSE IF now < e.nextRun THEN "NotYet"
  ELSE IF now <= e.nextRun + Grace THEN "Fire"
  ELSE "Skip"

Reschedule(e, now, failures) ==
  LET next == NextRun(e.id, now) IN
  IF next = NoRun
  THEN UpdateRuntime(e.id, e.nextRun, failures, FALSE)
  ELSE UpdateRuntime(e.id, next, failures, TRUE)

BeginPass(d) ==
  /\ pass[d].pc = "idle"
  /\ pass' = [pass EXCEPT ![d] =
       [pc |-> "scanning", now |-> clock, entry |-> NoEntry, pending |-> ListEnabled]]
  /\ UNCHANGED <<clock, table, faults, history>>

\* The next schedule of the pass, in order of next_run, whose fate is f.
Takes(d, e, f) ==
  /\ pass[d].pc = "scanning"
  /\ e \in pass[d].pending
  /\ \A o \in pass[d].pending : e.nextRun <= o.nextRun
  /\ Fate(e, pass[d].now) = f

Done(d, e) == pass' = [pass EXCEPT ![d].pending = @ \ {e}]

NotYet(d, e) ==
  /\ Takes(d, e, "NotYet")
  /\ Done(d, e)
  /\ UNCHANGED <<clock, table, faults, history>>

Disable(d, e) ==
  /\ Takes(d, e, "Disable")
  /\ UpdateRuntime(e.id, e.nextRun, e.failures, FALSE)
  /\ Done(d, e)
  /\ UNCHANGED <<clock, faults, history>>

\* Variant of Skip: the missed due time is left.
SkipKeepsDue(d, e) ==
  /\ Takes(d, e, "Skip")
  /\ UpdateRuntime(e.id, e.nextRun, e.failures, TRUE)
  /\ Done(d, e)
  /\ UNCHANGED <<clock, faults, history>>

Skip(d, e) ==
  /\ Takes(d, e, "Skip")
  /\ Reschedule(e, pass[d].now, e.failures)
  /\ Done(d, e)
  /\ UNCHANGED <<clock, faults, history>>

StartRun(d, e) ==
  /\ Takes(d, e, "Fire")
  /\ pass' = [pass EXCEPT ![d].pc = "running", ![d].pending = @ \ {e}, ![d].entry = e]
  /\ ran' = [ran EXCEPT ![e.id] = @ \union {e.nextRun}]
  /\ again' = IF e.nextRun \in ran[e.id] /\ e.id \notin excused THEN again + 1 ELSE again
  /\ excused' = excused \ {e.id}
  /\ UNCHANGED <<clock, table, faults, deleted, paused, streak>>

\* Variants of FinishRun: a failed run is not counted; a failed run is left due,
\* to be retried.
FinishRunUncounted(d, ok) ==
  LET e == pass[d].entry IN
  /\ pass[d].pc = "running"
  /\ Reschedule(e, pass[d].now, IF ok THEN 0 ELSE e.failures)
  /\ pass' = [pass EXCEPT ![d].pc = "scanning", ![d].entry = NoEntry]
  /\ streak' = [streak EXCEPT ![e.id] = IF ok THEN 0 ELSE @ + 1]
  /\ UNCHANGED <<clock, faults, deleted, paused, excused, ran, again>>

FinishRunRetries(d, ok) ==
  LET e == pass[d].entry
      failures == IF ok THEN 0 ELSE e.failures + 1 IN
  /\ pass[d].pc = "running"
  /\ IF ok THEN Reschedule(e, pass[d].now, 0)
           ELSE UpdateRuntime(e.id, e.nextRun, failures, TRUE)
  /\ pass' = [pass EXCEPT ![d].pc = "scanning", ![d].entry = NoEntry]
  /\ streak' = [streak EXCEPT ![e.id] = IF ok THEN 0 ELSE @ + 1]
  /\ UNCHANGED <<clock, faults, deleted, paused, excused, ran, again>>

\* The run returned; its outcome and the next due time are written.
FinishRun(d, ok) ==
  LET e == pass[d].entry IN
  /\ pass[d].pc = "running"
  /\ Reschedule(e, pass[d].now, IF ok THEN 0 ELSE e.failures + 1)
  /\ pass' = [pass EXCEPT ![d].pc = "scanning", ![d].entry = NoEntry]
  /\ streak' = [streak EXCEPT ![e.id] = IF ok THEN 0 ELSE @ + 1]
  /\ UNCHANGED <<clock, faults, deleted, paused, excused, ran, again>>

EndPass(d) ==
  /\ pass[d].pc = "scanning"
  /\ pass[d].pending = {}
  /\ pass' = [pass EXCEPT ![d] = NoPass]
  /\ UNCHANGED <<clock, table, faults, history>>

\* The process dies, or a write fails and `?` ends the pass: either way what
\* the pass still had to do or to write is lost, a run's outcome included, and
\* what it wrote stays.
Fault(d) ==
  /\ pass[d].pc # "idle"
  /\ faults < MaxFaults
  /\ faults' = faults + 1
  /\ pass' = [pass EXCEPT ![d] = NoPass]
  /\ \/ UNCHANGED streak
     \/ /\ pass[d].pc = "running"
        /\ \E ok \in BOOLEAN :
             streak' = [streak EXCEPT ![pass[d].entry.id] = IF ok THEN 0 ELSE @ + 1]
  /\ UNCHANGED <<clock, table, deleted, paused, excused, ran, again>>

Tick ==
  /\ clock < MaxClock
  /\ clock' = clock + 1
  /\ UNCHANGED <<table, pass, faults, history>>

User == \E s \in Schedule : Create(s) \/ Pause(s) \/ Resume(s) \/ Delete(s)

\* What a driver does of its own accord; runner.run returns because its LLM
\* calls and deliveries are all bounded.
DriverStep(d) ==
  \/ BeginPass(d)
  \/ EndPass(d)
  \/ \E ok \in BOOLEAN : FinishRun(d, ok)
  \/ \E e \in pass[d].pending :
       NotYet(d, e) \/ Disable(d, e) \/ Skip(d, e) \/ StartRun(d, e)

Next == Tick \/ User \/ \E d \in Driver : DriverStep(d) \/ Fault(d)

Spec == Init /\ [][Next]_vars

\* The driver keeps calling tick().
LiveSpec == Spec /\ WF_vars(Tick) /\ \A d \in Driver : WF_vars(DriverStep(d))

-----------------------------------------------------------------------------
(* Properties *)

\* A due time is run once: a second run needs a fault between the first and its
\* write, or a resumption.
RunOnce == again <= faults

\* A schedule whose last MaxFailures runs failed is not run again: the count a
\* pass works with falls behind the runs only by what a fault lost.
ExhaustedNotRun ==
  \A d \in Driver :
    pass[d].pc = "running" => streak[pass[d].entry.id] < MaxFailures + faults

\* A deletion sticks, also one that comes between a run and its write.
DeletedStaysDeleted == stored \intersect deleted = {}

\* Both: a schedule that failed too often, or is deleted, stays stopped.  (One that is
\* paused may not: PauseHolds.)
StopsStick == ExhaustedNotRun /\ DeletedStaysDeleted

\* No schedule is forgotten: when its due time passed it is run or skipped and
\* catches up with the clock, or is disabled or deleted, also after faults.
Overdue(s) == s \in stored /\ row[s].enabled /\ row[s].nextRun # NoRun /\ row[s].nextRun < clock

EveryDueHandled == \A s \in Schedule : Overdue(s) ~> ~Overdue(s)

\* A paused schedule stays disabled until it is resumed.
PauseHolds ==
  \A s \in paused \intersect stored : ~row[s].enabled

=============================================================================
