SPECIFICATION FairSpec
CONSTANTS
  i1 = i1
  r1 = r1
  r2 = r2
  x1 = x1
  k1 = k1
  k2 = k2
  NoKey = NoKey
  NoRequest = NoRequest
  NoInstance = NoInstance
  Instances <- OneInstance
  Requests <- TwoRequests
  SessionIds <- OneId
  SessionOf <- SameId
  Keys <- TwoKeys
  KeyOf <- OwnKeys
INVARIANTS SignedTunnelIsWatched
PROPERTIES WithdrawnSessionEnds
CHECK_DEADLOCK FALSE
