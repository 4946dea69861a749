SPECIFICATION FairSpec
CONSTANTS
  N = 2
  Limit = 2
  MaxAttempts = 2
  MaxWaits = 1
  MaxSleeps = 1
  MaxLost = 1
  Open = Open
INVARIANTS TypeOK SpareIsUsed BudgetTrue NoHammer
PROPERTIES CallReturns
CHECK_DEADLOCK FALSE
