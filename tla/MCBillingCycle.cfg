SPECIFICATION FairSpec
CONSTANTS
  cron = cron
  p = p
  Proc <- TwoProcs
  Cron = cron
  StartDate = 1
  BillingHalf = 0
  Horizon = 3
  MaxTime = 3
  MaxFaults = 1
INVARIANTS TypeOK BilledOnce Tiled
PROPERTY PendingIsBilled
