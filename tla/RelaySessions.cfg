SPECIFICATION Spec
CONSTANTS
  r1 = r1
  r2 = r2
  x1 = x1
  k1 = k1
  W443 = W443
  NoRequest = NoRequest
  NoKey = NoKey
  Requests <- TwoRequests
  SessionIds <- OneId
  SessionOf <- SameId
  Choices443 <- Second443
  Keys <- OneKey
  MaxSigningKeys = 1
  MaxReports = 1
  MaxLogging = 2
INVARIANTS NoStaleRecord ConnectedIsLogged
CHECK_DEADLOCK FALSE
