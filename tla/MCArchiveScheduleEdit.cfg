\* Nothing fails and nothing restarts.
SPECIFICATION Spec
CONSTANTS
  Schedule = {s1}
  Client = {c1}
  Scheduler = scheduler
  MaxJobs = 3
  MaxItems = 1
  MaxMishaps = 0
PROPERTY EditKept
CHECK_DEADLOCK FALSE
