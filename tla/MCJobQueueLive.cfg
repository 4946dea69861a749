\* User jobs only: the automatic retry job is switched off.
SPECIFICATION FairSpec
CONSTANTS
  MaxJobs = 3
  Target = {t1, t2}
  AutoInput = auto
  Client = {c1}
  AutoRetryFailed = {FALSE}
  MaxHalts = 1
  MaxFaults = 1
INVARIANT NoOrphan
PROPERTIES JobsSettle CancelFreesSlot
