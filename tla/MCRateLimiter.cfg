SPECIFICATION Spec
CONSTANTS
  p1 = p1
  p2 = p2
  Provider = {p1, p2}
  Rpm <- MCRpm
  Seeded = {p1}
  NormalReserve = 1
  Minute = 5
  FailureThreshold = 2
  SuccessThreshold = 2
  Cooldown = 1
  Hint = {0, 2}
  StartTime = 0
  MaxClock = 3
INVARIANTS
  LimiterSound
  BudgetKept
  HeadroomKept
  WaitIsExact
PROPERTIES
  WaitStaysGood
  ImplementsBudget
