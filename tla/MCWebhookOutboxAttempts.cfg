SPECIFICATION Spec
CONSTANTS
  p1 = p1
  p2 = p2
  a = a
  b = b
  NoToken = NoToken
  Proc <- MCProc
  Url <- MCUrl
  MaxRetries = 1
  MaxEpoch = 2
  Isolated = TRUE
INVARIANT AttemptsWithinMaxRetries
