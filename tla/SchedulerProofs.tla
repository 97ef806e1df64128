--------------------------- MODULE SchedulerProofs ---------------------------
(***************************************************************************)
(* Proofs about Scheduler, for any schedules, recurrences, grace period    *)
(* and number of failures: its types, that a due time is run once, that    *)
(* repeated failures stop a schedule, and that deletions stick.            *)
(***************************************************************************)
EXTENDS Scheduler, FiniteSetTheorems, TLAPS

\* No run was for a time after its pass, and so after the clock.
RunsArePast ==
  \A s \in Schedule : \A t \in ran[s] :
    /\ t <= clock
    /\ \A d \in Driver : pass[d].pc # "idle" => t <= pass[d].now

Running(d, s) == pass[d].pc = "running" /\ pass[d].entry.id = s

\* A pass has a schedule at most once, in its snapshot or at the runner.
OnceInPass ==
  \A d \in Driver : \A e \in pass[d].pending :
    /\ \A o \in pass[d].pending : o.id = e.id => o = e
    /\ ~Running(d, e.id)

\* What is left for s to be run for a due time it was already run for: its row,
\* unless the run's write is still to come, or a snapshot of its row.
RepeatsFromRow(s) ==
  /\ s \in stored
  /\ row[s].enabled
  /\ row[s].nextRun \in ran[s]
  /\ \A d \in Driver : ~Running(d, s)

RepeatsFromPass(s) ==
  \E d \in Driver : \E e \in pass[d].pending : e.id = s /\ e.nextRun \in ran[s]

Repeatable == {s \in Schedule \ excused : RepeatsFromRow(s) \/ RepeatsFromPass(s)}

\* Each fault leaves at most one run to be repeated.
RepeatsArePaidFor == again + Cardinality(Repeatable) <= faults

PassInv == TypeOK /\ RunsArePast /\ OnceInPass

RunInv == PassInv /\ RepeatsArePaidFor

\* A pass knows only schedules that had a row, and those without have not run.
Known == stored \union deleted

OnlyKnown ==
  /\ \A s \in Schedule \ Known : streak[s] = 0
  /\ \A d \in Driver :
       /\ \A e \in pass[d].pending : e.id \in Known
       /\ pass[d].pc = "running" => pass[d].entry.id \in Known

\* A count of failures, in a row or in a snapshot, falls behind by the faults.
CountsKeepUp ==
  /\ \A s \in stored : streak[s] <= row[s].failures + faults
  /\ \A d \in Driver :
       /\ \A e \in pass[d].pending : streak[e.id] <= e.failures + faults
       /\ pass[d].pc = "running" =>
            /\ streak[pass[d].entry.id] <= pass[d].entry.failures + faults
            /\ pass[d].entry.failures < MaxFailures

StreakInv == PassInv /\ OnlyKnown /\ CountsKeepUp

-----------------------------------------------------------------------------
(* What the writes leave in the table *)

LEMMA Written ==
  ASSUME TypeOK, NEW s \in Schedule, NEW next \in Nat, NEW failures \in Nat,
         NEW enabled \in BOOLEAN, UpdateRuntime(s, next, failures, enabled)
  PROVE  /\ stored' = stored
         /\ row' \in [Schedule -> Row]
         /\ \A r \in Schedule \ {s} : row'[r] = row[r]
         /\ s \in stored =>
              row'[s] = [nextRun |-> next, failures |-> failures, enabled |-> enabled]
         /\ s \notin stored => row' = row
BY DEF TypeOK, UpdateRuntime, Row

\* A rescheduled row is due after the pass, or disabled.
LEMMA Rescheduled ==
  ASSUME TypeOK, NEW e \in Entry, NEW now \in Time, NEW failures \in Nat,
         Reschedule(e, now, failures)
  PROVE  /\ stored' = stored
         /\ row' \in [Schedule -> Row]
         /\ \A r \in Schedule \ {e.id} : row'[r] = row[r]
         /\ e.id \in stored => /\ row'[e.id].failures = failures
                               /\ row'[e.id].enabled => row'[e.id].nextRun > now
         /\ e.id \notin stored => row' = row
<1> DEFINE next == NextRun(e.id, now)
<1>1. e.id \in Schedule /\ e.nextRun \in Nat
  BY DEF Entry
<1>2. CASE next = NoRun
  <2>1. UpdateRuntime(e.id, e.nextRun, failures, FALSE)
    BY <1>2 DEF Reschedule
  <2>2. FALSE \in BOOLEAN
    OBVIOUS
  <2>3. /\ stored' = stored
        /\ row' \in [Schedule -> Row]
        /\ \A r \in Schedule \ {e.id} : row'[r] = row[r]
        /\ e.id \in stored =>
             row'[e.id] = [nextRun |-> e.nextRun, failures |-> failures, enabled |-> FALSE]
        /\ e.id \notin stored => row' = row
    BY <1>1, <2>1, <2>2, Written
  <2>4. QED
    BY <2>3
<1>3. CASE next # NoRun
  <2>1. next \in Nat /\ next > now
    BY <1>1, <1>3, SchedulerConstants
  <2>2. UpdateRuntime(e.id, next, failures, TRUE)
    BY <1>3 DEF Reschedule
  <2>3. TRUE \in BOOLEAN
    OBVIOUS
  <2>4. /\ stored' = stored
        /\ row' \in [Schedule -> Row]
        /\ \A r \in Schedule \ {e.id} : row'[r] = row[r]
        /\ e.id \in stored =>
             row'[e.id] = [nextRun |-> next, failures |-> failures, enabled |-> TRUE]
        /\ e.id \notin stored => row' = row
    BY <1>1, <2>1, <2>2, <2>3, Written
  <2>5. QED
    BY <2>1, <2>4
<1>4. QED
  BY <1>2, <1>3

LEMMA NoPassTyped == NoPass \in Pass /\ NoEntry \in Entry
<1>1. NoEntry \in Entry
  BY SchedulerConstants DEF NoEntry, Entry
<1>2. QED
  BY <1>1 DEF NoPass, Pass

\* The clock a pass works with is one the assumptions speak of.
LEMMA PassTime ==
  ASSUME TypeOK, NEW d \in Driver
  PROVE  /\ pass[d].now \in Time /\ pass[d].entry \in Entry
         /\ pass[d].pending \subseteq Entry
BY SchedulerConstants DEF TypeOK, Pass, Time

LEMMA DoneTyped ==
  ASSUME TypeOK, NEW d \in Driver, NEW e, Done(d, e)
  PROVE  /\ pass' \in [Driver -> Pass]
         /\ \A c \in Driver : pass'[c].now = pass[c].now
         /\ pass'[d].pc = pass[d].pc /\ pass'[d].entry = pass[d].entry
         /\ pass'[d].pending = pass[d].pending \ {e}
<1> DEFINE p == [pass[d] EXCEPT !.pending = pass[d].pending \ {e}]
<1>1. pass[d] \in Pass
  BY DEF TypeOK
<1>2. pass[d].pending \ {e} \in SUBSET Entry
  BY <1>1 DEF Pass
<1>3. /\ p \in Pass /\ p.now = pass[d].now /\ p.pc = pass[d].pc
      /\ p.entry = pass[d].entry /\ p.pending = pass[d].pending \ {e}
  BY <1>1, <1>2 DEF Pass
<1>4. pass' = [pass EXCEPT ![d] = p]
  BY DEF Done
<1>5. QED
  BY <1>3, <1>4 DEF TypeOK

\* A pass begins with the enabled rows as they are.
LEMMA Begun ==
  ASSUME TypeOK, NEW d \in Driver, BeginPass(d)
  PROVE  /\ pass' \in [Driver -> Pass]
         /\ pass'[d].pc = "scanning" /\ pass'[d].now = clock
         /\ \A e \in pass'[d].pending :
              /\ e.id \in stored /\ row[e.id].enabled
              /\ e = [id |-> e.id, nextRun |-> row[e.id].nextRun,
                      failures |-> row[e.id].failures]
<1> DEFINE snapshot == {[id |-> s, nextRun |-> row[s].nextRun, failures |-> row[s].failures] :
                         s \in {r \in stored : row[r].enabled}}
           p == [pc |-> "scanning", now |-> clock, entry |-> NoEntry, pending |-> snapshot]
<1>1. \A e \in snapshot :
        /\ e.id \in stored /\ row[e.id].enabled
        /\ e = [id |-> e.id, nextRun |-> row[e.id].nextRun, failures |-> row[e.id].failures]
  OBVIOUS
<1>2. snapshot \in SUBSET Entry
  BY DEF TypeOK, Row, Entry
<1>3. clock \in Nat
  BY SchedulerConstants DEF TypeOK, Time
<1>4. pass' = [pass EXCEPT ![d] = p]
  BY DEF BeginPass, ListEnabled, EntryOf
<1> HIDE DEF snapshot
<1>5. p \in Pass /\ p.pc = "scanning" /\ p.now = clock /\ p.pending = snapshot
  BY <1>2, <1>3, NoPassTyped DEF Pass
<1>6. pass' \in [Driver -> Pass] /\ pass'[d] = p
  BY <1>4, <1>5 DEF TypeOK
<1>7. QED
  BY <1>1, <1>5, <1>6

-----------------------------------------------------------------------------
(* Types *)

LEMMA TypeInit == Init => TypeOK
<1> SUFFICES ASSUME Init PROVE TypeOK
  OBVIOUS
<1>1. clock \in Time /\ faults \in 0..MaxFaults
  BY SchedulerConstants DEF Init, Time
<1>2. pass \in [Driver -> Pass] /\ \A d \in Driver : pass[d].now <= clock
  BY NoPassTyped DEF Init, NoPass
<1>3. QED
  BY <1>1, <1>2 DEF Init, TypeOK, Row

LEMMA TypeStep ==
  ASSUME TypeOK, [Next]_vars
  PROVE  TypeOK'
<1>1. CASE UNCHANGED vars
  BY <1>1 DEF TypeOK, vars, table, history
<1>2. CASE Tick
  <2>1. clock' \in Time /\ \A d \in Driver : pass'[d].now <= clock'
    BY <1>2, SchedulerConstants DEF TypeOK, Tick, Time, Pass
  <2>2. QED
    BY <1>2, <2>1 DEF TypeOK, Tick, table, history
<1>3. ASSUME NEW s \in Schedule, Create(s) PROVE TypeOK'
  <2>1. NextRun(s, clock) \in Nat
    BY <1>3, SchedulerConstants DEF Create, CreateSchedule, TypeOK
  <2>2. row' \in [Schedule -> Row]
    BY <1>3, <2>1 DEF Create, CreateSchedule, TypeOK, Row
  <2>3. QED
    BY <1>3, <2>2 DEF Create, CreateSchedule, TypeOK, history
<1>4. ASSUME NEW s \in Schedule, Pause(s) PROVE TypeOK'
  BY <1>4 DEF Pause, SetEnabled, TypeOK, Row
<1>5. ASSUME NEW s \in Schedule, Resume(s) PROVE TypeOK'
  BY <1>5 DEF Resume, SetEnabled, TypeOK, Row
<1>6. ASSUME NEW s \in Schedule, Delete(s) PROVE TypeOK'
  BY <1>6 DEF Delete, DeleteSchedule, TypeOK
<1>7. ASSUME NEW d \in Driver, BeginPass(d) PROVE TypeOK'
  <2>1. \A c \in Driver : pass'[c].now <= clock
    BY <1>7, Begun, OneDriver, SchedulerConstants DEF TypeOK, Time
  <2>2. QED
    BY <1>7, <2>1, Begun DEF BeginPass, ListEnabled, EntryOf, TypeOK, table, history
<1>8. ASSUME NEW d \in Driver, NEW e \in pass[d].pending,
             NotYet(d, e) \/ Disable(d, e) \/ Skip(d, e) PROVE TypeOK'
  <2>1. e \in Entry /\ pass[d].now \in Time
    BY PassTime
  <2>2. pass' \in [Driver -> Pass] /\ \A c \in Driver : pass'[c].now = pass[c].now
    BY <1>8, DoneTyped DEF NotYet, Disable, Skip
  <2>3. stored' = stored /\ row' \in [Schedule -> Row]
    BY <1>8, <2>1, Written, Rescheduled
      DEF TypeOK, NotYet, Disable, Skip, table, Entry
  <2>4. QED
    BY <1>8, <2>2, <2>3 DEF TypeOK, NotYet, Disable, Skip, history
<1>9. ASSUME NEW d \in Driver, NEW e \in pass[d].pending, StartRun(d, e) PROVE TypeOK'
  <2>1. e \in Entry
    BY PassTime
  <2>2. pass' \in [Driver -> Pass] /\ \A c \in Driver : pass'[c].now = pass[c].now
    BY <1>9, <2>1 DEF TypeOK, Pass, StartRun
  <2>3. ran' \in [Schedule -> SUBSET Nat] /\ again' \in Nat
    BY <1>9, <2>1 DEF TypeOK, StartRun, Entry
  <2>4. QED
    BY <1>9, <2>2, <2>3 DEF TypeOK, StartRun, table
<1>10. ASSUME NEW d \in Driver, NEW ok \in BOOLEAN, FinishRun(d, ok) PROVE TypeOK'
  <2> DEFINE e == pass[d].entry
             failures == IF ok THEN 0 ELSE e.failures + 1
  <2>1. e \in Entry /\ pass[d].now \in Time
    BY PassTime
  <2>2. pass' \in [Driver -> Pass] /\ \A c \in Driver : pass'[c].now = pass[c].now
    BY <1>10, NoPassTyped DEF TypeOK, Pass, FinishRun
  <2>3. failures \in Nat /\ Reschedule(e, pass[d].now, failures)
    BY <1>10, <2>1 DEF FinishRun, Entry
  <2>4. stored' = stored /\ row' \in [Schedule -> Row]
    BY <2>1, <2>3, Rescheduled
  <2>5. streak' \in [Schedule -> Nat]
    BY <1>10, <2>1 DEF TypeOK, FinishRun, Entry
  <2>6. QED
    BY <1>10, <2>2, <2>4, <2>5 DEF TypeOK, FinishRun
<1>11. ASSUME NEW d \in Driver, EndPass(d) PROVE TypeOK'
  BY <1>11, NoPassTyped DEF TypeOK, EndPass, table, history, NoPass, Time
<1>12. ASSUME NEW d \in Driver, Fault(d) PROVE TypeOK'
  <2>1. pass' \in [Driver -> Pass] /\ \A c \in Driver : pass'[c].now <= clock
    BY <1>12, NoPassTyped DEF TypeOK, Fault, NoPass, Time
  <2>2. streak' \in [Schedule -> Nat] /\ faults' \in 0..MaxFaults
    BY <1>12, SchedulerConstants DEF TypeOK, Fault
  <2>3. QED
    BY <1>12, <2>1, <2>2 DEF TypeOK, Fault, table
<1>13. QED
  BY <1>1, <1>2, <1>3, <1>4, <1>5, <1>6, <1>7, <1>8, <1>9, <1>10, <1>11, <1>12
    DEF Next, User, DriverStep

\* The scheduler's state is well typed in every reachable state; in particular
\* a row always has a due time, also when its schedule has no next run.
THEOREM TypeCorrect == Spec => []TypeOK
BY TypeInit, TypeStep, PTL DEF Spec

-----------------------------------------------------------------------------
(* Passes *)

\* The run of e begins, ends, or is lost with its pass.
LEMMA RunBegun ==
  ASSUME TypeOK, NEW d \in Driver, NEW e \in pass[d].pending, StartRun(d, e)
  PROVE  /\ pass[d].pc = "scanning" /\ pass'[d].pc = "running"
         /\ pass'[d].now = pass[d].now /\ pass'[d].entry = e
         /\ pass'[d].pending = pass[d].pending \ {e}
         /\ e.id \in Schedule /\ e.failures \in Nat /\ e.failures < MaxFailures
         /\ e.nextRun <= pass[d].now
         /\ ran' = [ran EXCEPT ![e.id] = ran[e.id] \union {e.nextRun}]
<1>1. e \in Entry /\ pass[d].now \in Nat
  BY PassTime, SchedulerConstants DEF Time
<1>2. e.failures < MaxFailures /\ e.nextRun <= pass[d].now /\ pass[d].pc = "scanning"
  BY <1>1, SchedulerConstants DEF StartRun, Takes, Fate, Entry
<1>3. QED
  BY <1>1, <1>2 DEF StartRun, TypeOK, Pass, Entry

LEMMA RunEnded ==
  ASSUME TypeOK, NEW d \in Driver, NEW ok \in BOOLEAN, FinishRun(d, ok)
  PROVE  /\ pass[d].pc = "running" /\ pass'[d].pc = "scanning"
         /\ pass'[d].now = pass[d].now /\ pass'[d].pending = pass[d].pending
BY DEF FinishRun, TypeOK, Pass

LEMMA PassEnded ==
  ASSUME TypeOK, NEW d \in Driver, EndPass(d) \/ Fault(d)
  PROVE  /\ pass[d].pc # "idle" /\ pass'[d].pc = "idle" /\ pass'[d].pending = {}
         /\ EndPass(d) => pass[d].pending = {} /\ pass[d].pc = "scanning"
BY DEF EndPass, Fault, TypeOK, Pass, NoPass

LEMMA PassInit == Init => RunsArePast /\ OnceInPass
BY DEF Init, RunsArePast, OnceInPass, Running, NoPass

LEMMA PassStep ==
  ASSUME PassInv, [Next]_vars
  PROVE  PassInv'
<1> USE DEF PassInv
<1>0. TypeOK'
  BY TypeStep
<1>1. CASE UNCHANGED <<pass, ran>> /\ (clock' = clock \/ Tick)
  <2>1. clock \in Nat /\ clock' >= clock
    BY <1>1, SchedulerConstants DEF TypeOK, Time, Tick
  <2>2. RunsArePast'
    <3>1. ASSUME NEW s \in Schedule, NEW t \in ran[s] PROVE t <= clock'
      <4>1. t \in Nat /\ clock' \in Nat
        BY <1>0, SchedulerConstants DEF TypeOK, Time
      <4>2. t <= clock
        BY DEF RunsArePast
      <4>3. QED
        BY <2>1, <4>1, <4>2
    <3>2. QED
      BY <1>1, <3>1 DEF RunsArePast
  <2>3. OnceInPass'
    BY <1>1 DEF OnceInPass, Running
  <2>4. QED
    BY <1>0, <2>2, <2>3
<1>2. ASSUME NEW d \in Driver, BeginPass(d) PROVE PassInv'
  <2>1. RunsArePast'
    BY <1>2, Begun, OneDriver DEF RunsArePast, BeginPass, ListEnabled, EntryOf, history
  <2>2. OnceInPass'
    BY <1>2, Begun, OneDriver DEF OnceInPass, Running
  <2>3. QED
    BY <1>0, <2>1, <2>2
<1>3. ASSUME NEW d \in Driver, NEW e \in pass[d].pending,
             NotYet(d, e) \/ Disable(d, e) \/ Skip(d, e) PROVE PassInv'
  <2>1. Done(d, e) /\ UNCHANGED <<clock, ran>>
    BY <1>3 DEF NotYet, Disable, Skip, history
  <2>2. RunsArePast'
    BY <2>1, DoneTyped, OneDriver DEF RunsArePast
  <2>3. OnceInPass'
    BY <2>1, DoneTyped, OneDriver DEF OnceInPass, Running
  <2>4. QED
    BY <1>0, <2>2, <2>3
<1>4. ASSUME NEW d \in Driver, NEW e \in pass[d].pending, StartRun(d, e) PROVE PassInv'
  <2>1. pass[d].now <= clock /\ pass[d].now \in Nat /\ clock \in Nat /\ e \in Entry
    BY PassTime, SchedulerConstants DEF TypeOK, Time
  <2>2. e.nextRun <= clock /\ clock' = clock
    <3>1. e.nextRun <= pass[d].now /\ clock' = clock
      BY <1>4, RunBegun DEF StartRun
    <3>2. e.nextRun \in Nat
      BY <2>1 DEF Entry
    <3>3. QED
      BY <2>1, <3>1, <3>2
  <2>3. RunsArePast'
    BY <1>4, <2>1, <2>2, RunBegun, OneDriver DEF RunsArePast, TypeOK
  <2>4. OnceInPass'
    BY <1>4, RunBegun, OneDriver DEF OnceInPass, Running
  <2>5. QED
    BY <1>0, <2>3, <2>4
<1>5. ASSUME NEW d \in Driver, NEW ok \in BOOLEAN, FinishRun(d, ok) PROVE PassInv'
  <2>1. RunsArePast'
    BY <1>5, RunEnded, OneDriver DEF RunsArePast, FinishRun
  <2>2. OnceInPass'
    BY <1>5, RunEnded, OneDriver DEF OnceInPass, Running
  <2>3. QED
    BY <1>0, <2>1, <2>2
<1>6. ASSUME NEW d \in Driver, EndPass(d) \/ Fault(d) PROVE PassInv'
  <2>1. RunsArePast'
    BY <1>6, PassEnded, OneDriver DEF RunsArePast, EndPass, Fault, history
  <2>2. OnceInPass'
    BY <1>6, PassEnded, OneDriver DEF OnceInPass
  <2>3. QED
    BY <1>0, <2>1, <2>2
<1>7. ASSUME UNCHANGED vars \/ Tick \/ User
      PROVE  UNCHANGED <<pass, ran>> /\ (clock' = clock \/ Tick)
  BY <1>7 DEF vars, table, history, Tick, User, Create, CreateSchedule,
         Pause, SetEnabled, Resume, Delete, DeleteSchedule
<1>8. QED
  BY <1>1, <1>2, <1>3, <1>4, <1>5, <1>6, <1>7 DEF Next, DriverStep

-----------------------------------------------------------------------------
(* A due time is run once *)

LEMMA RepeatableFinite == IsFiniteSet(Repeatable) /\ IsFiniteSet(Repeatable')
BY SchedulerConstants, FS_Subset DEF Repeatable

\* What a step may do to the count: nothing, repeat what was left to repeat, or
\* leave a run to be repeated by a fault.
LEMMA RepeatsCount ==
  ASSUME PassInv, PassInv', RepeatsArePaidFor, NEW s,
         \/ Repeatable' \subseteq Repeatable /\ again' = again /\ faults' = faults
         \/ /\ s \in Repeatable /\ Repeatable' \subseteq Repeatable \ {s}
            /\ again' = again + 1 /\ faults' = faults
         \/ /\ Repeatable' \subseteq Repeatable \union {s}
            /\ again' = again /\ faults' = faults + 1
  PROVE  RepeatsArePaidFor'
<1> DEFINE n == Cardinality(Repeatable)
           m == Cardinality(Repeatable')
<1>1. n \in Nat /\ m \in Nat
  BY RepeatableFinite, FS_CardinalityType
<1>2. again \in Nat /\ faults \in Nat
  BY SchedulerConstants DEF PassInv, TypeOK
<1>3. again + n <= faults
  BY DEF RepeatsArePaidFor
<1>4. CASE Repeatable' \subseteq Repeatable /\ again' = again /\ faults' = faults
  <2>1. m <= n
    BY <1>4, RepeatableFinite, FS_Subset
  <2>2. QED
    BY <1>1, <1>2, <1>3, <1>4, <2>1 DEF RepeatsArePaidFor
<1>5. CASE /\ s \in Repeatable /\ Repeatable' \subseteq Repeatable \ {s}
           /\ again' = again + 1 /\ faults' = faults
  <2>1. /\ IsFiniteSet(Repeatable \ {s})
        /\ Cardinality(Repeatable \ {s}) = n - 1
    BY <1>5, RepeatableFinite, FS_RemoveElement
  <2>2. m <= n - 1
    BY <1>5, <2>1, FS_Subset
  <2>3. QED
    BY <1>1, <1>2, <1>3, <1>5, <2>2 DEF RepeatsArePaidFor
<1>6. CASE /\ Repeatable' \subseteq Repeatable \union {s}
           /\ again' = again /\ faults' = faults + 1
  <2>1. /\ IsFiniteSet(Repeatable \union {s})
        /\ Cardinality(Repeatable \union {s}) \in {n, n + 1}
    BY RepeatableFinite, FS_AddElement
  <2>2. m <= Cardinality(Repeatable \union {s})
    BY <1>6, <2>1, FS_Subset
  <2>3. m <= n + 1
    BY <1>1, <2>1, <2>2
  <2>4. QED
    BY <1>1, <1>2, <1>3, <1>6, <2>3 DEF RepeatsArePaidFor
<1>7. QED
  BY <1>4, <1>5, <1>6

LEMMA RunInit == Init => RunInv
<1> SUFFICES ASSUME Init PROVE RunInv
  OBVIOUS
<1>1. Repeatable = {}
  BY DEF Init, Repeatable, RepeatsFromRow, RepeatsFromPass, NoPass
<1>2. RepeatsArePaidFor
  BY <1>1, FS_EmptySet DEF Init, RepeatsArePaidFor
<1>3. QED
  BY <1>2, TypeInit, PassInit DEF RunInv, PassInv

\* A row that is written by a pass is not due for a time already run.
LEMMA WrittenNotRepeated ==
  ASSUME PassInv, NEW d \in Driver, NEW e \in Entry, NEW failures \in Nat,
         \/ Reschedule(e, pass[d].now, failures)
         \/ UpdateRuntime(e.id, e.nextRun, failures, FALSE),
         pass[d].pc # "idle", ran' = ran
  PROVE  /\ stored' = stored
         /\ \A s \in Schedule \ {e.id} : row'[s] = row[s]
         /\ e.id \in stored /\ row'[e.id].enabled => row'[e.id].nextRun \notin ran'[e.id]
<1>1. pass[d].now \in Time /\ pass[d].now \in Nat /\ e.id \in Schedule /\ e.nextRun \in Nat
  BY PassTime, SchedulerConstants DEF PassInv, Time, Entry
<1>2. CASE Reschedule(e, pass[d].now, failures)
  <2>1. /\ stored' = stored
        /\ row' \in [Schedule -> Row]
        /\ \A s \in Schedule \ {e.id} : row'[s] = row[s]
        /\ e.id \in stored /\ row'[e.id].enabled => row'[e.id].nextRun > pass[d].now
    BY <1>1, <1>2, Rescheduled DEF PassInv
  <2>2. row'[e.id].nextRun \in Nat
    BY <1>1, <2>1 DEF Row
  <2>3. \A t \in ran[e.id] : t <= pass[d].now
    BY <1>1 DEF PassInv, RunsArePast
  <2>4. row'[e.id].nextRun > pass[d].now => row'[e.id].nextRun \notin ran[e.id]
    BY <1>1, <2>2, <2>3
  <2>5. QED
    BY <2>1, <2>4
<1>3. CASE UpdateRuntime(e.id, e.nextRun, failures, FALSE)
  <2>1. FALSE \in BOOLEAN
    OBVIOUS
  <2>2. /\ stored' = stored
        /\ \A s \in Schedule \ {e.id} : row'[s] = row[s]
        /\ e.id \in stored =>
             row'[e.id] = [nextRun |-> e.nextRun, failures |-> failures, enabled |-> FALSE]
    BY <1>1, <1>3, <2>1, Written DEF PassInv
  <2>3. QED
    BY <2>2
<1>4. QED
  BY <1>2, <1>3

\* The users and the clock leave nothing more to be repeated: a created row is
\* due later than any run, and one that is resumed is excused.
LEMMA UserRepeatsNothing ==
  ASSUME PassInv, UNCHANGED vars \/ Tick \/ User
  PROVE  Repeatable' \subseteq Repeatable /\ again' = again /\ faults' = faults
<1>1. UNCHANGED <<pass, ran, again, faults>>
  BY DEF vars, table, history, Tick, User, Create, CreateSchedule,
         Pause, SetEnabled, Resume, Delete, DeleteSchedule
<1>2. \A s : RepeatsFromPass(s)' <=> RepeatsFromPass(s)
  BY <1>1 DEF RepeatsFromPass
<1>3. ASSUME NEW s \in Schedule, s \notin excused', RepeatsFromRow(s)'
      PROVE  s \notin excused /\ RepeatsFromRow(s)
  <2>1. CASE UNCHANGED <<table, excused>>
    BY <1>1, <1>3, <2>1 DEF RepeatsFromRow, table, Running
  <2>2. ASSUME NEW r \in Schedule, Create(r) PROVE s \notin excused /\ RepeatsFromRow(s)
    <3>1. CASE s = r
      <4>1. clock \in Time /\ clock \in Nat
        BY SchedulerConstants DEF PassInv, TypeOK, Time
      <4>2. row'[s].nextRun = NextRun(s, clock)
        BY <2>2, <3>1 DEF Create, CreateSchedule, PassInv, TypeOK
      <4>3. row'[s].nextRun \in Nat /\ row'[s].nextRun > clock
        BY <2>2, <3>1, <4>1, <4>2, SchedulerConstants DEF Create, CreateSchedule
      <4>4. \A t \in ran[s] : t <= clock
        BY DEF PassInv, RunsArePast
      <4>5. QED
        BY <1>1, <1>3, <4>1, <4>3, <4>4 DEF RepeatsFromRow
    <3>2. CASE s # r
      BY <1>1, <1>3, <2>2, <3>2 DEF RepeatsFromRow, Create, CreateSchedule, history, PassInv, TypeOK, Running
    <3>3. QED
      BY <3>1, <3>2
  <2>3. ASSUME NEW r \in Schedule, Pause(r) PROVE s \notin excused /\ RepeatsFromRow(s)
    BY <1>1, <1>3, <2>3 DEF RepeatsFromRow, Pause, SetEnabled, PassInv, TypeOK, Row, Running
  <2>4. ASSUME NEW r \in Schedule, Resume(r) PROVE s \notin excused /\ RepeatsFromRow(s)
    BY <1>1, <1>3, <2>4 DEF RepeatsFromRow, Resume, SetEnabled, PassInv, TypeOK, Row, Running
  <2>5. ASSUME NEW r \in Schedule, Delete(r) PROVE s \notin excused /\ RepeatsFromRow(s)
    BY <1>1, <1>3, <2>5 DEF RepeatsFromRow, Delete, DeleteSchedule, Running
  <2>6. QED
    BY <2>1, <2>2, <2>3, <2>4, <2>5 DEF vars, history, Tick, User
<1>4. excused \subseteq excused'
  BY DEF vars, table, history, Tick, User, Create, CreateSchedule,
         Pause, SetEnabled, Resume, Delete, DeleteSchedule
<1>5. QED
  BY <1>1, <1>2, <1>3, <1>4 DEF Repeatable

LEMMA RunStep ==
  ASSUME RunInv, [Next]_vars
  PROVE  RunInv'
<1> USE DEF RunInv
<1>0. PassInv'
  BY PassStep
<1> SUFFICES RepeatsArePaidFor'
  BY <1>0
<1>1. CASE UNCHANGED vars \/ Tick \/ User
  BY <1>0, <1>1, UserRepeatsNothing, RepeatsCount
<1>2. ASSUME NEW d \in Driver, BeginPass(d) PROVE RepeatsArePaidFor'
  <2>1. UNCHANGED <<stored, row, excused, ran, again, faults>> /\ pass[d].pc = "idle"
    BY <1>2 DEF BeginPass, ListEnabled, EntryOf, table, history
  <2>2. ASSUME NEW s \in Schedule, RepeatsFromRow(s)' \/ RepeatsFromPass(s)'
        PROVE  RepeatsFromRow(s)
    BY <1>2, <2>1, <2>2, Begun, OneDriver
      DEF PassInv, RepeatsFromRow, RepeatsFromPass, Running
  <2>3. Repeatable' \subseteq Repeatable
    BY <2>1, <2>2 DEF Repeatable
  <2>4. QED
    BY <1>0, <2>1, <2>3, RepeatsCount
<1>3. ASSUME NEW d \in Driver, NEW e \in pass[d].pending,
             NotYet(d, e) \/ Disable(d, e) \/ Skip(d, e) PROVE RepeatsArePaidFor'
  <2>1. /\ pass[d].pc = "scanning" /\ Done(d, e)
        /\ UNCHANGED <<excused, ran, again, faults>> /\ e \in Entry
    BY <1>3, PassTime DEF PassInv, NotYet, Disable, Skip, Takes, history
  <2>2. /\ stored' = stored
        /\ \A s \in Schedule \ {e.id} : row'[s] = row[s]
        /\ \/ row'[e.id] = row[e.id]
           \/ e.id \in stored /\ row'[e.id].enabled => row'[e.id].nextRun \notin ran'[e.id]
    <3>1. CASE NotYet(d, e)
      BY <3>1 DEF NotYet, table
    <3>2. CASE Disable(d, e) \/ Skip(d, e)
      <4>1. \/ Reschedule(e, pass[d].now, e.failures)
            \/ UpdateRuntime(e.id, e.nextRun, e.failures, FALSE)
        BY <3>2 DEF Disable, Skip
      <4>2. e.failures \in Nat
        BY <2>1 DEF Entry
      <4>3. QED
        BY <2>1, <4>1, <4>2, WrittenNotRepeated
    <3>3. QED
      BY <1>3, <3>1, <3>2
  <2>3. ASSUME NEW s \in Schedule, RepeatsFromPass(s)' PROVE RepeatsFromPass(s)
    BY <2>1, <2>3, DoneTyped, OneDriver DEF PassInv, RepeatsFromPass
  <2>4. ASSUME NEW s \in Schedule, RepeatsFromRow(s)' PROVE RepeatsFromRow(s)
    BY <2>1, <2>2, <2>4, DoneTyped, OneDriver DEF PassInv, RepeatsFromRow, Running
  <2>5. Repeatable' \subseteq Repeatable
    BY <2>1, <2>3, <2>4 DEF Repeatable
  <2>6. QED
    BY <1>0, <2>1, <2>5, RepeatsCount
<1>4. ASSUME NEW d \in Driver, NEW e \in pass[d].pending, StartRun(d, e)
      PROVE  RepeatsArePaidFor'
  <2>1. /\ UNCHANGED <<stored, row, faults>> /\ excused' = excused \ {e.id}
        /\ again' = IF e.nextRun \in ran[e.id] /\ e.id \notin excused
                    THEN again + 1 ELSE again
    BY <1>4 DEF StartRun, table
  <2>2. /\ pass'[d].pc = "running" /\ pass'[d].entry = e /\ pass[d].pc = "scanning"
        /\ pass'[d].pending = pass[d].pending \ {e} /\ e.id \in Schedule
        /\ \A s \in Schedule \ {e.id} : ran'[s] = ran[s]
    BY <1>4, RunBegun DEF PassInv, TypeOK
  <2>3. ~RepeatsFromRow(e.id)' /\ ~RepeatsFromPass(e.id)'
    BY <2>2, OneDriver DEF PassInv, OnceInPass, RepeatsFromRow, RepeatsFromPass, Running
  <2>4. ASSUME NEW s \in Schedule \ {e.id}, RepeatsFromRow(s)' \/ RepeatsFromPass(s)'
        PROVE  RepeatsFromRow(s) \/ RepeatsFromPass(s)
    BY <2>1, <2>2, <2>4, OneDriver DEF RepeatsFromRow, RepeatsFromPass, Running
  <2>5. Repeatable' \subseteq Repeatable \ {e.id}
    BY <2>1, <2>3, <2>4 DEF Repeatable
  <2>6. CASE e.nextRun \in ran[e.id] /\ e.id \notin excused
    <3>1. e.id \in Repeatable
      BY <2>2, <2>6 DEF Repeatable, RepeatsFromPass
    <3>2. QED
      BY <1>0, <2>1, <2>5, <2>6, <3>1, RepeatsCount
  <2>7. CASE ~(e.nextRun \in ran[e.id] /\ e.id \notin excused)
    BY <1>0, <2>1, <2>5, <2>7, RepeatsCount
  <2>8. QED
    BY <2>6, <2>7
<1>5. ASSUME NEW d \in Driver, NEW ok \in BOOLEAN, FinishRun(d, ok)
      PROVE  RepeatsArePaidFor'
  <2> DEFINE e == pass[d].entry
             failures == IF ok THEN 0 ELSE e.failures + 1
  <2>1. /\ pass[d].pc = "running" /\ pass'[d].pc = "scanning"
        /\ pass'[d].pending = pass[d].pending
        /\ UNCHANGED <<excused, ran, again, faults>>
    BY <1>5, RunEnded DEF PassInv, FinishRun
  <2>2. e \in Entry /\ failures \in Nat /\ Reschedule(e, pass[d].now, failures)
    BY <1>5, PassTime DEF PassInv, FinishRun, Entry
  <2>3. /\ stored' = stored
        /\ \A s \in Schedule \ {e.id} : row'[s] = row[s]
        /\ e.id \in stored /\ row'[e.id].enabled => row'[e.id].nextRun \notin ran'[e.id]
    BY <2>1, <2>2, WrittenNotRepeated
  <2>4. ASSUME NEW s \in Schedule, RepeatsFromPass(s)' PROVE RepeatsFromPass(s)
    BY <2>1, <2>4, OneDriver DEF RepeatsFromPass
  <2>5. ASSUME NEW s \in Schedule, RepeatsFromRow(s)' PROVE RepeatsFromRow(s)
    BY <2>1, <2>3, <2>5, OneDriver DEF RepeatsFromRow, Running
  <2>6. Repeatable' \subseteq Repeatable
    BY <2>1, <2>4, <2>5 DEF Repeatable
  <2>7. QED
    BY <1>0, <2>1, <2>6, RepeatsCount
<1>6. ASSUME NEW d \in Driver, EndPass(d) \/ Fault(d) PROVE RepeatsArePaidFor'
  <2> DEFINE lost == pass[d].entry.id
  <2>1. UNCHANGED <<stored, row, excused, ran, again>>
    BY <1>6 DEF EndPass, Fault, table, history
  <2>2. pass'[d].pending = {}
    BY <1>6, PassEnded DEF PassInv
  <2>3. \A s \in Schedule : ~RepeatsFromPass(s)'
    BY <2>2, OneDriver DEF RepeatsFromPass
  <2>4. ASSUME NEW s \in Schedule, RepeatsFromRow(s)', ~Running(d, s)
        PROVE  RepeatsFromRow(s)
    BY <2>1, <2>4, OneDriver DEF RepeatsFromRow
  <2>5. CASE EndPass(d)
    <3>1. faults' = faults /\ pass[d].pc = "scanning"
      BY <2>5 DEF EndPass
    <3>2. Repeatable' \subseteq Repeatable
      BY <2>1, <2>3, <2>4, <3>1 DEF Repeatable, Running
    <3>3. QED
      BY <1>0, <2>1, <3>1, <3>2, RepeatsCount
  <2>6. CASE Fault(d)
    <3>1. faults' = faults + 1
      BY <2>6 DEF Fault
    <3>2. Repeatable' \subseteq Repeatable \union {lost}
      BY <2>1, <2>3, <2>4 DEF Repeatable, Running
    <3>3. QED
      BY <1>0, <2>1, <3>1, <3>2, RepeatsCount
  <2>7. QED
    BY <1>6, <2>5, <2>6
<1>7. QED
  BY <1>1, <1>2, <1>3, <1>4, <1>5, <1>6 DEF Next, DriverStep

\* However users and faults fall between the reads, runs and writes of passes,
\* a due time is run a second time only after a fault that lost the write of a
\* run, once for each fault, or because the user resumed the schedule.
THEOREM RunsOnce == Spec => []RunOnce
<1>1. RunInv => RunOnce
  <2> SUFFICES ASSUME RunInv PROVE again <= faults
    BY DEF RunOnce
  <2>1. Cardinality(Repeatable) \in Nat
    BY RepeatableFinite, FS_CardinalityType
  <2>2. again \in Nat /\ faults \in Nat
    BY SchedulerConstants DEF RunInv, PassInv, TypeOK
  <2>3. again + Cardinality(Repeatable) <= faults
    BY DEF RunInv, RepeatsArePaidFor
  <2>4. QED
    BY <2>1, <2>2, <2>3
<1>2. QED
  BY <1>1, RunInit, RunStep, PTL DEF Spec

-----------------------------------------------------------------------------
(* Repeated failures stop a schedule *)

LEMMA StreakInit == Init => StreakInv
<1> SUFFICES ASSUME Init PROVE StreakInv
  OBVIOUS
<1>1. OnlyKnown /\ CountsKeepUp
  BY DEF Init, OnlyKnown, CountsKeepUp, Known, NoPass
<1>2. QED
  BY <1>1, TypeInit, PassInit DEF StreakInv, PassInv

\* What the invariant compares are numbers.
LEMMA StreakNumbers ==
  ASSUME TypeOK
  PROVE  /\ faults \in Nat
         /\ \A s \in Schedule : streak[s] \in Nat /\ row[s].failures \in Nat
         /\ \A d \in Driver :
              /\ pass[d].entry.id \in Schedule /\ pass[d].entry.failures \in Nat
              /\ \A e \in pass[d].pending :
                   e \in Entry /\ e.id \in Schedule /\ e.failures \in Nat
BY SchedulerConstants DEF TypeOK, Row, Pass, Entry

LEMMA UserKeepsStreaks ==
  ASSUME StreakInv, UNCHANGED vars \/ Tick \/ User
  PROVE  OnlyKnown' /\ CountsKeepUp'
<1> USE DEF StreakInv, PassInv
<1>1. UNCHANGED <<pass, faults, streak>>
  BY DEF vars, table, history, Tick, User, Create, CreateSchedule,
         Pause, SetEnabled, Resume, Delete, DeleteSchedule
<1>2. Known \subseteq Known'
  BY DEF vars, table, history, Tick, User, Create, CreateSchedule,
         Pause, SetEnabled, Resume, Delete, DeleteSchedule, Known
<1>3. OnlyKnown'
  BY <1>1, <1>2 DEF OnlyKnown
<1>4. ASSUME NEW s \in stored' PROVE streak[s] <= row'[s].failures + faults
  <2>1. CASE s \in stored /\ row'[s].failures = row[s].failures
    BY <2>1 DEF CountsKeepUp
  <2>2. CASE s \notin Known /\ row'[s].failures = 0
    <3>1. s \in Schedule
      BY <1>4, TypeStep DEF TypeOK, Next
    <3>2. QED
      BY <2>2, <3>1, StreakNumbers DEF OnlyKnown
  <2>3. QED
    BY <1>4, <2>1, <2>2
      DEF TypeOK, Row, Known, vars, table, history, Tick, User, Create, CreateSchedule,
             Pause, SetEnabled, Resume, Delete, DeleteSchedule
<1>5. CountsKeepUp'
  BY <1>1, <1>4 DEF CountsKeepUp
<1>6. QED
  BY <1>3, <1>5

LEMMA StreakStep ==
  ASSUME StreakInv, [Next]_vars
  PROVE  StreakInv'
<1> USE DEF StreakInv, PassInv
<1>0. PassInv'
  BY PassStep
<1> SUFFICES OnlyKnown' /\ CountsKeepUp'
  BY <1>0
<1>1. CASE UNCHANGED vars \/ Tick \/ User
  BY <1>1, UserKeepsStreaks
<1>2. ASSUME NEW d \in Driver, BeginPass(d) PROVE OnlyKnown' /\ CountsKeepUp'
  <2>1. UNCHANGED <<stored, row, deleted, faults, streak>>
    BY <1>2 DEF BeginPass, ListEnabled, EntryOf, table, history
  <2>2. pass'[d].pc = "scanning"
        /\ \A e \in pass'[d].pending : e.id \in stored /\ e.failures = row[e.id].failures
    BY <1>2, Begun
  <2>3. OnlyKnown'
    BY <2>1, <2>2, OneDriver DEF OnlyKnown, Known
  <2>4. CountsKeepUp'
    BY <2>1, <2>2, OneDriver DEF CountsKeepUp
  <2>5. QED
    BY <2>3, <2>4
<1>3. ASSUME NEW d \in Driver, NEW e \in pass[d].pending,
             NotYet(d, e) \/ Disable(d, e) \/ Skip(d, e)
      PROVE  OnlyKnown' /\ CountsKeepUp'
  <2>1. /\ pass'[d].pc = "scanning" /\ pass'[d].pending \subseteq pass[d].pending
        /\ UNCHANGED <<deleted, faults, streak>>
    BY <1>3, DoneTyped DEF NotYet, Disable, Skip, Takes, history
  <2>2. /\ stored' = stored
        /\ \A s \in stored :
             row'[s].failures = row[s].failures \/ (s = e.id /\ row'[s].failures = e.failures)
    <3>1. CASE NotYet(d, e)
      BY <3>1 DEF NotYet, table
    <3>2. CASE Disable(d, e)
      <4>1. e.id \in Schedule /\ e.nextRun \in Nat /\ e.failures \in Nat /\ FALSE \in BOOLEAN
        BY StreakNumbers DEF Entry
      <4>2. UpdateRuntime(e.id, e.nextRun, e.failures, FALSE)
        BY <3>2 DEF Disable
      <4>3. /\ stored' = stored
            /\ \A s \in Schedule \ {e.id} : row'[s] = row[s]
            /\ e.id \in stored => row'[e.id] =
                 [nextRun |-> e.nextRun, failures |-> e.failures, enabled |-> FALSE]
        BY <4>1, <4>2, Written
      <4>4. QED
        BY <4>3 DEF TypeOK
    <3>3. CASE Skip(d, e)
      <4>1. /\ e \in Entry /\ e.failures \in Nat /\ pass[d].now \in Time
            /\ Reschedule(e, pass[d].now, e.failures)
        BY <3>3, StreakNumbers, PassTime DEF Skip
      <4>2. QED
        BY <4>1, Rescheduled DEF TypeOK
    <3>4. QED
      BY <1>3, <3>1, <3>2, <3>3
  <2>3. OnlyKnown'
    BY <2>1, <2>2, OneDriver DEF OnlyKnown, Known
  <2>4. CountsKeepUp'
    BY <2>1, <2>2, OneDriver DEF CountsKeepUp
  <2>5. QED
    BY <2>3, <2>4
<1>4. ASSUME NEW d \in Driver, NEW e \in pass[d].pending, StartRun(d, e)
      PROVE  OnlyKnown' /\ CountsKeepUp'
  <2>1. UNCHANGED <<stored, row, deleted, faults, streak>>
    BY <1>4 DEF StartRun, table
  <2>2. /\ pass'[d].entry = e /\ pass'[d].pending \subseteq pass[d].pending
        /\ e.failures < MaxFailures
    BY <1>4, RunBegun
  <2>3. OnlyKnown'
    BY <2>1, <2>2, OneDriver DEF OnlyKnown, Known
  <2>4. CountsKeepUp'
    BY <2>1, <2>2, OneDriver DEF CountsKeepUp
  <2>5. QED
    BY <2>3, <2>4
<1>5. ASSUME NEW d \in Driver, NEW ok \in BOOLEAN, FinishRun(d, ok)
      PROVE  OnlyKnown' /\ CountsKeepUp'
  <2> DEFINE e == pass[d].entry
             failures == IF ok THEN 0 ELSE e.failures + 1
             failed == IF ok THEN 0 ELSE streak[e.id] + 1
  <2>1. /\ pass[d].pc = "running" /\ pass'[d].pc = "scanning"
        /\ pass'[d].pending = pass[d].pending /\ UNCHANGED <<deleted, faults>>
    BY <1>5, RunEnded DEF FinishRun
  <2>2. e.id \in Schedule /\ streak' = [streak EXCEPT ![e.id] = failed]
    BY <1>5, StreakNumbers DEF FinishRun
  <2>3. /\ stored' = stored
        /\ \A s \in Schedule \ {e.id} : row'[s] = row[s]
        /\ e.id \in stored => row'[e.id].failures = failures
    <3>1. e \in Entry /\ failures \in Nat /\ Reschedule(e, pass[d].now, failures)
      BY <1>5, PassTime, StreakNumbers DEF FinishRun
    <3>2. QED
      BY <3>1, PassTime, Rescheduled
  <2>4. failed <= failures + faults
    BY <2>1, StreakNumbers DEF CountsKeepUp
  <2>5. \A o \in pass[d].pending : o.id \in Schedule /\ o.id # e.id
    BY <2>1, StreakNumbers DEF OnceInPass, Running
  <2>6. OnlyKnown'
    BY <2>1, <2>2, <2>3, OneDriver DEF OnlyKnown, Known, TypeOK
  <2>7. CountsKeepUp'
    BY <2>1, <2>2, <2>3, <2>4, <2>5, OneDriver DEF CountsKeepUp, TypeOK
  <2>8. QED
    BY <2>6, <2>7
<1>6. ASSUME NEW d \in Driver, EndPass(d) \/ Fault(d)
      PROVE  OnlyKnown' /\ CountsKeepUp'
  <2>1. UNCHANGED <<stored, row, deleted>>
    BY <1>6 DEF EndPass, Fault, table, history
  <2>2. pass'[d].pc = "idle" /\ pass'[d].pending = {}
    BY <1>6, PassEnded
  <2>3. CASE UNCHANGED streak
    <3>1. faults' \in {faults, faults + 1}
      BY <1>6 DEF EndPass, Fault
    <3>2. OnlyKnown'
      BY <2>1, <2>2, <2>3, OneDriver DEF OnlyKnown, Known
    <3>3. ASSUME NEW s \in stored PROVE streak[s] <= row[s].failures + faults'
      <4>1. streak[s] <= row[s].failures + faults
        BY DEF CountsKeepUp
      <4>2. QED
        BY <3>1, <4>1, StreakNumbers DEF TypeOK
    <3>4. CountsKeepUp'
      BY <2>1, <2>2, <2>3, <3>3, OneDriver DEF CountsKeepUp
    <3>5. QED
      BY <3>2, <3>4
  <2>4. CASE ~UNCHANGED streak
    <3>1. PICK ok \in BOOLEAN :
            /\ pass[d].pc = "running" /\ faults' = faults + 1
            /\ streak' = [streak EXCEPT ![pass[d].entry.id] = IF ok THEN 0 ELSE @ + 1]
      BY <1>6, <2>4 DEF EndPass, Fault, history
    <3>2. OnlyKnown'
      BY <2>1, <2>2, <3>1, OneDriver DEF OnlyKnown, Known, TypeOK
    <3>3. ASSUME NEW s \in stored PROVE streak'[s] <= row[s].failures + faults'
      <4>1. streak[s] <= row[s].failures + faults
        BY DEF CountsKeepUp
      <4>2. streak'[s] \in {0, streak[s], streak[s] + 1}
        BY <3>1 DEF TypeOK
      <4>3. QED
        BY <3>1, <4>1, <4>2, StreakNumbers DEF TypeOK
    <3>4. CountsKeepUp'
      BY <2>1, <2>2, <3>3, OneDriver DEF CountsKeepUp
    <3>5. QED
      BY <3>2, <3>4
  <2>5. QED
    BY <2>3, <2>4
<1>7. QED
  BY <1>1, <1>2, <1>3, <1>4, <1>5, <1>6 DEF Next, DriverStep

\* A schedule that failed MaxFailures times in a row is not run again, whatever
\* was paused, resumed, skipped or rescheduled in between; a fault can lose the
\* count of one failure.
THEOREM ExhaustedIsNotRun == Spec => []ExhaustedNotRun
<1>1. StreakInv => ExhaustedNotRun
  <2> SUFFICES ASSUME StreakInv, NEW d \in Driver, pass[d].pc = "running"
               PROVE  streak[pass[d].entry.id] < MaxFailures + faults
    BY DEF ExhaustedNotRun
  <2>1. /\ streak[pass[d].entry.id] <= pass[d].entry.failures + faults
        /\ pass[d].entry.failures < MaxFailures
    BY DEF StreakInv, CountsKeepUp
  <2>2. QED
    BY <2>1, StreakNumbers, SchedulerConstants DEF StreakInv, PassInv
<1>2. QED
  BY <1>1, StreakInit, StreakStep, PTL DEF Spec

-----------------------------------------------------------------------------
(* Deletions *)

\* A deleted schedule does not come back, whatever a pass still writes for it.
THEOREM DeletionsStick == Spec => []DeletedStaysDeleted
<1>1. Init => DeletedStaysDeleted
  BY DEF Init, DeletedStaysDeleted
<1>2. DeletedStaysDeleted /\ [Next]_vars => DeletedStaysDeleted'
  <2> SUFFICES ASSUME DeletedStaysDeleted, [Next]_vars PROVE DeletedStaysDeleted'
    OBVIOUS
  <2>1. ASSUME UNCHANGED vars \/ Tick \/ User PROVE DeletedStaysDeleted'
    BY <2>1 DEF DeletedStaysDeleted, vars, table, history, Tick, User,
                Create, CreateSchedule, Pause, SetEnabled, Resume, Delete, DeleteSchedule
  <2>2. ASSUME NEW d \in Driver, DriverStep(d) \/ Fault(d) PROVE stored' = stored /\ deleted' = deleted
    BY <2>2 DEF DriverStep, BeginPass, ListEnabled, EntryOf, NotYet, Disable, Skip, StartRun, FinishRun, EndPass, Fault,
                Reschedule, UpdateRuntime, table, history
  <2>3. QED
    BY <2>1, <2>2 DEF Next, DeletedStaysDeleted
<1>3. QED
  BY <1>1, <1>2, PTL DEF Spec

-----------------------------------------------------------------------------
\* What was stopped, by failing too often or by its owner, stays stopped, whatever
\* a pass still holds of it.
THEOREM StoppedStaysStopped == Spec => []StopsStick
<1>1. ExhaustedNotRun /\ DeletedStaysDeleted => StopsStick
  BY DEF StopsStick
<1>2. QED
  BY <1>1, ExhaustedIsNotRun, DeletionsStick, PTL

=============================================================================
