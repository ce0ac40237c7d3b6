SPECIFICATION FairAuthSpec
CONSTANTS
  c1 = c1
  c2 = c2
  k1 = k1
  k2 = k2
  NoClient = NoClient
  Clients <- TwoClients
  Managers <- OneManager
  Callers <- TwoCallers
  AuthTimeout = 1
  CacheTtl = 2
  DocumentedTtl = 2
  MaxReq = 2
INVARIANTS PermitOnlyIfGranted CompleterIsThere
PROPERTIES StaleGrantIsBounded
CHECK_DEADLOCK FALSE
