SPECIFICATION Spec
CONSTANTS
  MaxJobs = 3
  Target = {t1}
  AutoInput = auto
  Client = {c1}
  AutoRetryFailed = {TRUE}
  MaxHalts = 1
  MaxFaults = 0
INVARIANTS TypeOK CountersMatch SerialExecution NoUserOrphan OneActiveAutoRow
PROPERTIES VerdictStable KeepsLifecycle
