SPECIFICATION FairSpec
CONSTANTS
  p1 = p1
  p2 = p2
  a = a
  b = b
  NoToken = NoToken
  Proc <- MCProc
  Url <- OneUrl
  MaxRetries = 1
  MaxEpoch = 1
  Isolated = FALSE
PROPERTY DeliverySettles
