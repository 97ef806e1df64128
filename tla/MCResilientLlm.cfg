SPECIFICATION FairSpec
CONSTANTS
  p1 = p1
  c1 = c1
  c2 = c2
  Provider = {p1}
  Rpm <- MCRpm
  Seeded = {}
  NormalReserve = 1
  Minute = 2
  FailureThreshold = 2
  SuccessThreshold = 2
  Cooldown = 1
  Hint = {0, 2}
  StartTime = 0
  MaxClock = 8
  Caller = {c1, c2}
  AcquireTimeout = 1
  BaseBackoff = 1
  MaxBackoff = 2
  MaxAttempts = 2
  Header <- MCHeader
  CallTimeout = 1
  LastBegin = 0
  MaxLate = 1
INVARIANTS
  AnsweredInTime
PROPERTIES
  HintHonoured
  ImplementsLimiter
  EveryRequestEnds
CHECK_DEADLOCK FALSE
