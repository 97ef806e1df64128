------------------------------ MODULE Calendar ------------------------------
(***************************************************************************)
(* What chrono and chrono_tz tell the program about dates and a time zone. *)
(* A day has DayLength ticks, dates are numbered from 0, and Offset(t) is  *)
(* what the zone's clocks add to the instant t, jumps included.            *)
(***************************************************************************)
EXTENDS Integers, FiniteSets, FiniteSetsExt

CONSTANTS DayLength, DayOfMonth(_), WeekdayOf(_), Offset(_), MaxOffset

Never == -1

DateOf(local) == local \div DayLength
Local(t) == t + Offset(t)

\* Instants whose wall clock shows this date and time: none in a spring gap,
\* two in an autumn overlap.
Instants(date, at) ==
  LET wall == date * DayLength + at IN
  {t \in (wall - MaxOffset)..(wall + MaxOffset) : Local(t) = wall}

\* from_local_datetime(..).earliest(); instants are never negative here.
Earliest(date, at) ==
  IF Instants(date, at) = {} THEN Never ELSE Min(Instants(date, at))

=============================================================================
