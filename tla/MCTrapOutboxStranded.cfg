SPECIFICATION Spec
CONSTANTS
  p1 = p1
  p2 = p2
  a = a
  b = b
  NoToken = NoToken
  Hook = Hook
  Proc <- MCProc
  Direct <- MCDirect
  Url <- MCUrl
  IsTest = TRUE
  MaxAttempts = 2
  MaxEpoch = 1
INVARIANT RetryingIsScheduled
