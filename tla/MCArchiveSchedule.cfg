\* One schedule: schedules share nothing but the pass of the scheduler.
\* Deadlock: once the schedule is deleted nothing is left to do.
SPECIFICATION FairSpec
CONSTANTS
  Schedule = {s1}
  Client = {c1}
  Scheduler = scheduler
  MaxJobs = 6
  MaxItems = 2
  MaxMishaps = 1
INVARIANTS TypeOK OneBatch
PROPERTIES StartsOnlyDue DueRuns
CHECK_DEADLOCK FALSE
