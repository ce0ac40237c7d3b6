SPECIFICATION FairSpec
CONSTANTS
  PermitOpen <- MCPermitOpen
  Enrolled = TRUE
  RequireSigned = FALSE
  Slots = 2
  Key = {"k1", "k2"}
  Advert <- MCAdvert
  Request <- MCRequest
  MaxRequests = 2
  MaxSkip = 1
  Moves <- MCMoves
INVARIANTS SignedIsWatched SignedEndsOnlyIfWithdrawn
PROPERTIES WithdrawnEndsSession StopEndsSessions
CHECK_DEADLOCK FALSE
