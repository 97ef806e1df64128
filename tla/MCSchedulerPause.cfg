CONSTANTS
  interval = interval
  once = once
  Schedule <- MCSchedule
  Driver = {d1}
  NextRun <- MCNextRun
  NoRun = NoRun
  Every = 2
  OnceAt = 2
  Grace = 1
  MaxFailures = 2
  MaxClock = 6
  MaxFaults = 0
SPECIFICATION Spec
INVARIANT PauseHolds
CHECK_DEADLOCK FALSE
