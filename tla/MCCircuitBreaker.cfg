SPECIFICATION FairBreaker
CONSTANTS
  c1 = c1
  c2 = c2
  c3 = c3
  Caller <- MCCaller
  Threshold = 2
  ResetMs = 2
  MaxFailures = 7
INVARIANTS BreakerTypeOK OpenMeansOutage OverrunBounded
PROPERTY CircuitReopens
