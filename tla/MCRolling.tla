----------------------------- MODULE MCRolling ------------------------------
\* Values for checking Rolling: a day of four ticks, one tick ahead of UTC and two in
\* summer time; date 0 is 1 January, and date 4 the first Monday.
EXTENDS Rolling, Sequences

MCDayLength == 4

MonthStarts == {0, 31, 59, 90, 120, 151}
MCDayOfMonth(d) == d - Max({s \in MonthStarts : s <= d}) + 1
MCWeekdayOf(d) == (d + 3) % 7

\* Clocks go forward at the midnight between 3 and 4 March, which they skip, and back
\* on 10 March.
Forward == 62 * MCDayLength - 1
Back == 68 * MCDayLength + 2
MCOffset(t) == IF t < Forward THEN 1 ELSE IF t < Back THEN 2 ELSE 1

Every(period, day) == [period |-> period, endDay |-> day]
MCCadence == {Every("Weekly", 6), Every("Weekly", 1), Every("Biweekly", 0), Every("Monthly", 0)}

=============================================================================
