CONSTANTS
  Body <- MCBody
  Timezones <- MCTimezones
  Rejected = Rejected
  NoRun = NoRun
  DayLength <- MCDayLength
  DayOfMonth <- MCDayOfMonth
  WeekdayOf <- MCWeekdayOf
  Offset <- MCOffset
  MaxOffset = 2
  Horizon = 62
  LastDay = 145
  MaxLate = 3
SPECIFICATION Spec
INVARIANTS NothingSkipped OnTime OncePerDate
CHECK_DEADLOCK FALSE
