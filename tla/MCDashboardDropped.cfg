\* One job, three updates, no broken connection.
SPECIFICATION DashFairSpec
CONSTANTS
  MaxJobs = 1
  MaxUpdates = 3
  Outcome = {"completed"}
  MaxFaults = 0
  WireSize = 1
  NoMeta = NoMeta
PROPERTY ListConverges
