SPECIFICATION FairSpec
CONSTANTS
  c1 = c1
  c2 = c2
  Contract <- MCContract
  Due <- MCDue
  Rule <- MCRule
  Cron = cron
  Request = {q1, q2}
  MaxDay = 2
  MaxRequests = 2
  MaxFaults = 1
INVARIANTS TypeOK SuspendedLineIsCut
PROPERTIES ClosedStaysClosed DebtorIsCut
CHECK_DEADLOCK FALSE
