------------------------------ MODULE Rolling -------------------------------
(***************************************************************************)
(* Rolling-period summaries: the period windows and decide_rolling of      *)
(* domain/src/rolling.rs, run again and again at whatever instants a run   *)
(* comes.                                                                  *)
(*                                                                         *)
(* The host that carries an action out and stores the summary is not       *)
(* written yet; here it does what the action's documentation says.         *)
(***************************************************************************)
EXTENDS Calendar

CONSTANTS
  Cadence,           \* pairs of a period and the weekday a weekly one ends on
  FirstMonday,       \* the date biweekly tiles are counted from
  FirstDay, LastDay  \* bounds: the dates a run falls on

\* The dates and instants any computation here asks calendar and clocks about: a
\* period after that of the last run, and none before the first instant.
NearDate == (FirstDay - 32)..(LastDay + 64)
EndOfTime == (LastDay + 64) * DayLength

ASSUME RollingConstants ==
  /\ {DayLength, MaxOffset, FirstDay, LastDay} \subseteq Nat
  /\ DayLength > 0 /\ MaxOffset <= DayLength
  /\ FirstDay >= 32 /\ FirstDay <= LastDay
  /\ FirstMonday \in Int
  /\ Cadence \subseteq [period : {"Weekly", "Biweekly", "Monthly"}, endDay : 0..6]

\* Weekdays go round, and no month is longer than 31 days.
ASSUME CalendarAssumption ==
  \A d \in NearDate :
    /\ WeekdayOf(d) \in 0..6
    /\ \A e \in NearDate : e >= d => WeekdayOf(e) = (WeekdayOf(d) + (e - d)) % 7
    /\ d + 30 \in NearDate => \E e \in d..(d + 30) : DayOfMonth(e) = 1

\* No zone is a day from UTC; clocks that are set back show again what they have
\* shown, and not a date they have left.
ASSUME ClocksAssumption ==
  \A t \in 0..EndOfTime :
    /\ Offset(t) \in -MaxOffset..MaxOffset
    /\ \A u \in (t - 2 * MaxOffset)..(t - 1) : u >= 0 =>
         /\ DateOf(Local(u)) <= DateOf(Local(t))
         /\ Local(u) > Local(t) =>
              \E v \in (t - 2 * MaxOffset)..(t - 1) : v >= 0 /\ Local(v) = Local(t)

\* No active rolling summary, or none to be had.
None == [start |-> Never, end |-> Never]

VARIABLES
  cadence,
  now,         \* the last run
  active,      \* the active summary: its window, and through
  covered,     \* history: instants whose messages went into a summary
  twice        \* history: some instant did so twice

vars == <<cadence, now, active, covered, twice>>

NoSummary == [window |-> None, through |-> Never]

FirstOfMonth(date) == Max({d \in (date - 30)..date : DayOfMonth(d) = 1})
NextFirst(date) == Min({d \in (date + 1)..(date + 31) : DayOfMonth(d) = 1})

\* Variant of Dates: every month taken to have thirty days.
DatesThirtyDays(c, today) ==
  CASE c.period = "Weekly" ->
         LET end == today + ((c.endDay + 7 - WeekdayOf(today)) % 7) IN <<end - 6, end + 1>>
    [] c.period = "Biweekly" ->
         LET start == FirstMonday + ((today - FirstMonday) \div 14) * 14 IN <<start, start + 14>>
    [] c.period = "Monthly" -> <<FirstOfMonth(today), FirstOfMonth(today) + 30>>

\* The dates of the period that `today` is in: the first, and the one after
\* the last.
Dates(c, today) ==
  CASE c.period = "Weekly" ->
         LET end == today + ((c.endDay + 7 - WeekdayOf(today)) % 7) IN <<end - 6, end + 1>>
    [] c.period = "Biweekly" ->
         LET start == FirstMonday + ((today - FirstMonday) \div 14) * 14 IN <<start, start + 14>>
    [] c.period = "Monthly" -> <<FirstOfMonth(today), NextFirst(today)>>

\* The window is none when one of its two midnights is.
Window(c, instant) ==
  LET dates == Dates(c, DateOf(Local(instant)))
      w == [start |-> Earliest(dates[1], 0), end |-> Earliest(dates[2], 0)] IN
  IF Never \in {w.start, w.end} THEN None ELSE w

Init ==
  /\ cadence \in Cadence
  /\ now = FirstDay * DayLength
  /\ active = NoSummary
  /\ covered = {}
  /\ twice = FALSE

Cover(instants) ==
  /\ covered' = covered \union instants
  /\ twice' = (twice \/ covered \intersect instants # {})

\* The three arms of decide_rolling at t, carried out.
StartNew(t) ==
  LET w == Window(cadence, t) IN
  /\ active = NoSummary
  /\ w # None
  /\ active' = [window |-> w, through |-> t]
  /\ Cover(w.start..t)

\* Variant of Accumulate: the instant the last run stopped at counts again.
AccumulateInclusive(t) ==
  /\ active # NoSummary
  /\ t < active.window.end
  /\ active' = [active EXCEPT !.through = t]
  /\ Cover(active.through..t)

Accumulate(t) ==
  /\ active # NoSummary
  /\ t < active.window.end
  /\ active' = [active EXCEPT !.through = t]
  /\ Cover((active.through + 1)..t)

Finalize(t) ==
  /\ active # NoSummary
  /\ t >= active.window.end
  /\ active' = NoSummary
  /\ UNCHANGED <<covered, twice>>

Run ==
  \E t \in (now + 1)..((LastDay + 1) * DayLength - 1) :
    /\ StartNew(t) \/ Accumulate(t) \/ Finalize(t)
    /\ now' = t
    /\ UNCHANGED cadence

Next == Run

Spec == Init /\ [][Next]_vars

-----------------------------------------------------------------------------
(* Properties *)

\* The window of an instant, if there is one, contains it.
WindowContainsInstant ==
  LET w == Window(cadence, now) IN w # None => w.start <= now /\ now < w.end

\* Windows tile the time line: the instant after a window's end is the start
\* of the next, across clock changes.
WindowsTile ==
  LET w == Window(cadence, now)
      next == Window(cadence, w.end) IN
  w # None /\ next # None => next.start = w.end

\* Runs that are late or missed leave no hole behind them within a period, and
\* none of them goes past its end.
CaughtUp ==
  active # NoSummary =>
    /\ active.through \in active.window.start..(active.window.end - 1)
    /\ active.window.start..active.through \subseteq covered

\* No message goes into two periods, or into one twice.
NothingTwice == ~twice

\* Both: every instant belongs to one window, across clock changes.
WindowsPartition == WindowContainsInstant /\ WindowsTile

\* Both: a period takes every instant up to its last run, once.
TakenOnce == CaughtUp /\ NothingTwice

=============================================================================
