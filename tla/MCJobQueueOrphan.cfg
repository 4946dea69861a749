\* The automatic retry row alone, no crash and no database fault.
SPECIFICATION Spec
CONSTANTS
  MaxJobs = 2
  Target = {t1}
  AutoInput = auto
  Client = {c1}
  AutoRetryFailed = {TRUE}
  MaxHalts = 0
  MaxFaults = 0
INVARIANT NoOrphan
