SPECIFICATION FairSpec
CONSTANTS
  PolicyAtsign = "@p"
  Managers = {}
  CacheSize = 1
  Note <- Notes2
  Allowed = {"@b"}
  Ttl = 1
  CoolDown = 1
  CoolSlots = 1
  Wait = 1
  WaitCap = 2
  MaxPass = 2
  MaxInbox = 1
  MaxAsked = 2
INVARIANTS RevocationTakesEffect
PROPERTIES CheckEnds
CHECK_DEADLOCK FALSE
