----------------------------- MODULE Recurrence -----------------------------
(***************************************************************************)
(* Schedules from the request that creates one to every run it is due for: *)
(* Schedule::build and next_run of domain/src/schedule.rs, the row kept of *)
(* it by repository/src/schedule.rs, and the way the scheduler uses them:  *)
(* the row is read back and built again on every pass, and rescheduled     *)
(* from some instant at or after its due time.                             *)
(***************************************************************************)
EXTENDS Calendar

CONSTANTS
  Body,              \* requests: type, at, days, dayOfMonth, timezone, onceAt, every
  Timezones,         \* the zone names chrono_tz knows
  NoRun, Rejected,
  Horizon,           \* days next_wallclock scans: 62
  LastDay, MaxLate   \* bounds: the calendar, and how late a tick comes

\* The last instant any computation here asks the clocks about.
EndOfTime == (LastDay + Horizon + 3) * DayLength

Request ==
  [type : STRING, at : Nat, days : SUBSET Nat, dayOfMonth : Nat, timezone : STRING,
   onceAt : Int, every : Int]

ASSUME RecurrenceConstants ==
  /\ {DayLength, MaxOffset, Horizon, LastDay, MaxLate} \subseteq Nat
  /\ DayLength > 0 /\ MaxOffset <= DayLength /\ LastDay >= 3
  /\ NoRun \notin Int
  /\ Body \subseteq Request /\ Rejected \notin Request

\* No zone is a day from UTC, and clocks that are set back show again what they
\* have shown.
ASSUME ClocksAssumption ==
  \A t \in -DayLength..EndOfTime :
    /\ Offset(t) \in -MaxOffset..MaxOffset
    /\ \A u \in (t - 2 * MaxOffset)..(t - 1) : u >= -DayLength /\ Local(u) > Local(t) =>
         \E v \in (t - 2 * MaxOffset)..(t - 1) : v >= -DayLength /\ Local(v) = Local(t)

FixedType == {"fifteen_minutes", "hourly", "every_four_hours", "half_weekly"}
WallClockType == {"daily", "weekly", "monthly"}
ScheduleType == {"once", "custom"} \union FixedType \union WallClockType

VARIABLES
  row,         \* the stored definition
  now, due,
  served       \* history: the last due time, NoRun before the first

vars == <<row, now, due, served>>

-----------------------------------------------------------------------------
(* Building, storing and reading back *)

Build(b) ==
  IF \/ b.type \notin ScheduleType
     \/ b.at \notin 0..(DayLength - 1)
     \/ b.timezone \notin Timezones
     \/ ~(b.days \subseteq 0..6)
  THEN Rejected ELSE b

\* Days are stored in one text, the numbers parted by commas: none at all is
\* one empty part.  Only which days are named matters, so a text is the set of its
\* parts.
JoinDays(days) == IF days = {} THEN {<<>>} ELSE {<<day>> : day \in days}

ParseDayNumbers(text) == {part[1] : part \in text \ {<<>>}}

CreateSchedule(s) == [s EXCEPT !.days = JoinDays(s.days)]

RowToStored(r) == Build([r EXCEPT !.days = ParseDayNumbers(r.days)])

schedule == RowToStored(row)

-----------------------------------------------------------------------------
(* The next run *)

Matches(s, date) ==
  CASE s.type = "daily"   -> TRUE
    [] s.type = "weekly"  -> WeekdayOf(date) \in s.days
    [] s.type = "monthly" -> DayOfMonth(date) = s.dayOfMonth

\* Variants of NextWallclock: the scan starts at the UTC date; the instant
\* asked about counts as a future one.
NextWallclockUtc(s, after) ==
  LET start == DateOf(after)
      dates == {d \in start..(start + Horizon) :
                  /\ Matches(s, d)
                  /\ Earliest(d, s.at) > after}
  IN  IF dates = {} THEN NoRun ELSE Earliest(Min(dates), s.at)

NextWallclockInclusive(s, after) ==
  LET start == DateOf(Local(after))
      dates == {d \in start..(start + Horizon) :
                  /\ Matches(s, d)
                  /\ Earliest(d, s.at) >= after}
  IN  IF dates = {} THEN NoRun ELSE Earliest(Min(dates), s.at)

\* The first matching date, from the local date of `after` on, that has the
\* wall-clock time and has it after `after`; the earlier instant of an overlap.
NextWallclock(s, after) ==
  LET start == DateOf(Local(after))
      dates == {d \in start..(start + Horizon) :
                  /\ Matches(s, d)
                  /\ Earliest(d, s.at) > after}
  IN  IF dates = {} THEN NoRun ELSE Earliest(Min(dates), s.at)

\* Variant of NextInterval: an interval from the instant asked about.
NextIntervalDrifts(after, every) == after + every

NextInterval(after, every) == (after \div every + 1) * every

Interval(s) ==
  CASE s.type = "fifteen_minutes"  -> DayLength \div 96
    [] s.type = "hourly"           -> DayLength \div 24
    [] s.type = "every_four_hours" -> DayLength \div 6
    [] s.type = "half_weekly"      -> (7 * DayLength) \div 2
    [] s.type = "custom"           -> s.every

NextRun(s, after) ==
  CASE s.type = "once"            -> IF s.onceAt > after THEN s.onceAt ELSE NoRun
    [] s.type \in WallClockType   -> NextWallclock(s, after)
    [] OTHER                      ->
         IF Interval(s) > 0 THEN NextInterval(after, Interval(s)) ELSE NoRun

\* create_schedule: a bad request when it cannot be built or has no future run.
Init ==
  /\ now \in DayLength..(3 * DayLength)
  /\ \E body \in Body :
       /\ Build(body) # Rejected
       /\ NextRun(Build(body), now) # NoRun
       /\ row = CreateSchedule(Build(body))
       /\ due = NextRun(Build(body), now)
  /\ served = NoRun

\* reschedule: at some tick that comes at or after the due time.
Reschedule ==
  /\ due # NoRun
  /\ \E late \in 0..MaxLate :
       /\ DateOf(due + late) <= LastDay
       /\ now' = due + late
       /\ due' = NextRun(schedule, due + late)
  /\ served' = due
  /\ UNCHANGED row

Next == Reschedule

Spec == Init /\ [][Next]_vars

-----------------------------------------------------------------------------
(* Properties *)

WallClock == schedule.type \in WallClockType

\* When a date's run is due: its wall-clock time, the first time it is shown.
DueOn(date) == Earliest(date, schedule.at)

\* The next run is the next one: no matching date has its time between the
\* instant asked about and the answer, and "none" means none within the horizon.
NothingSkipped ==
  WallClock =>
    \A date \in 0..(LastDay + Horizon) :
      Matches(schedule, date) /\ DueOn(date) # Never =>
        ~(/\ DueOn(date) > now
          /\ IF due = NoRun THEN date <= DateOf(Local(now)) + Horizon
             ELSE DueOn(date) < due)

\* Across clock changes a run stays at its wall-clock time on a matching date.
AtWallClockTime ==
  WallClock /\ due # NoRun =>
    /\ Local(due) % DayLength = schedule.at
    /\ Matches(schedule, DateOf(Local(due)))

\* A local date is served once, however the clocks change and ticks are late.
OncePerDate ==
  WallClock /\ due # NoRun /\ served # NoRun =>
    DateOf(Local(due)) > DateOf(Local(served))

\* Interval runs fall on the multiples of the interval, after the tick that
\* scheduled them, and miss none of them.
OnTheGrid ==
  schedule.type \in FixedType \union {"custom"} =>
    /\ due % Interval(schedule) = 0
    /\ due > now
    /\ due - Interval(schedule) <= now

\* Both: a run is due when its definition says.
OnTime == AtWallClockTime /\ OnTheGrid

=============================================================================
