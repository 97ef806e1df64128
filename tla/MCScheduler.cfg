CONSTANTS
  interval = interval
  once = once
  Schedule <- MCSchedule
  Driver = {d1}
  NextRun <- MCNextRun
  NoRun = NoRun
  Every = 2
  OnceAt = 2
  Grace = 1
  MaxFailures = 2
  MaxClock = 5
  MaxFaults = 1
SPECIFICATION LiveSpec
INVARIANTS RunOnce StopsStick
PROPERTY EveryDueHandled
CHECK_DEADLOCK FALSE
