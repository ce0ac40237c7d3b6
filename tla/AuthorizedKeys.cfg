SPECIFICATION FairKeysSpec
CONSTANTS
  s1 = s1
  s2 = s2
  p1 = p1
  UserKey = UserKey
  Fragment = Fragment
  Sessions <- TwoSessions
  PubKeys <- OneKey
  IOFails = TRUE
INVARIANTS LockedEditsKeepOthers
 
CHECK_DEADLOCK FALSE
