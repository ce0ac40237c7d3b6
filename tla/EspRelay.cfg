SPECIFICATION FairSpec
CONSTANTS
  MaxSubs = 1
  MaxPcbs = 5
  Chunk = 2
  Grace = 0
  Stall = 1
  DrainCap = 1
  LostCap = 1
  IdleTimeout = 1
  MaxBytes = 2
  MaxControl = 2
INVARIANTS StreamIsIntact
PROPERTIES NoSubIsAbandoned RelayEnds SubsEnd
CHECK_DEADLOCK FALSE
