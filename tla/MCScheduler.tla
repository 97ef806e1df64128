----------------------------- MODULE MCScheduler ----------------------------
\* Values for checking Scheduler: an epoch-aligned interval schedule and a
\* Once; next_run is that of domain/src/schedule.rs for those two kinds.
EXTENDS Scheduler

CONSTANTS interval, once, Every, OnceAt

MCSchedule == {interval, once}

MCNextRun(s, t) ==
  IF s = interval THEN (t \div Every + 1) * Every
  ELSE IF OnceAt > t THEN OnceAt ELSE NoRun

=============================================================================
