---------------------------- MODULE MCRecurrence ----------------------------
\* Values for checking Recurrence: a day of six ticks in a zone two ticks
\* west of UTC (a tick is the hour the clocks change by), half a year from a 1
\* January, clocks forward on 31 March and back on 12 May.
EXTENDS Recurrence, SequencesExt

MCDayLength == 6

MonthLengths == <<31, 28, 31, 30, 31, 30, 31>>
MonthStart(m) == FoldLeft(LAMBDA x, y : x + y, 0, SubSeq(MonthLengths, 1, m - 1))
MonthStarts == {MonthStart(m) : m \in 1..8}
MCDayOfMonth(d) == d - Max({s \in MonthStarts : s <= d}) + 1
MCWeekdayOf(d) == d % 7

Forward == 89 * MCDayLength + 3       \* 31 March, wall clock 1 becomes 2
Back == 131 * MCDayLength + 4         \* 12 May, wall clock 3 becomes 2
MCOffset(t) == IF t < Forward THEN -2 ELSE IF t < Back THEN -1 ELSE -2

MCTimezones == {"here"}

Req(type, at, days, dom, onceAt, every) ==
  [type |-> type, at |-> at, days |-> days, dayOfMonth |-> dom, timezone |-> "here",
   onceAt |-> onceAt, every |-> every]

MCBody ==
  {Req("daily", at, {}, 1, 0, 0) : at \in {0, 1, 2, 5, MCDayLength}}
  \union {Req("weekly", at, days, 1, 0, 0) : at \in {1, 2}, days \in {{5}, {0, 5}, {}, {7}}}
  \union {Req("monthly", at, {}, dom, 0, 0) : at \in {1, 2}, dom \in {1, 12, 30, 31, 0}}
  \union {Req("once", 0, {}, 1, 40, 0),
           Req("custom", 0, {}, 1, 0, 7), Req("custom", 0, {}, 1, 0, 0)}
  \union {Req(type, 0, {}, 1, 0, 0) : type \in {"every_four_hours", "half_weekly", "yearly"}}
  \union {[Req("daily", 1, {}, 1, 0, 0) EXCEPT !.timezone = "nowhere"]}

=============================================================================
