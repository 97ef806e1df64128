CONSTANTS
  Cadence <- MCCadence
  DayLength <- MCDayLength
  DayOfMonth <- MCDayOfMonth
  WeekdayOf <- MCWeekdayOf
  Offset <- MCOffset
  MaxOffset = 2
  FirstMonday = 4
  FirstDay = 56
  LastDay = 73
SPECIFICATION Spec
INVARIANTS WindowsPartition TakenOnce
CHECK_DEADLOCK FALSE
