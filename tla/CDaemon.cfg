SPECIFICATION FairSpec
CONSTANTS
  Option <- Options2
  Note <- Notes
  Sent <- SentTo
  Allowed = {"@a"}
  Ttl = 1
  Throttle = 1
  ThrottleSlots = 1
  Wait = 1
  WaitCap = 2
  ReconnectAfter = 1
  Refresh = 1
  MaxAttempts = 2
  MaxUnset = 1
  Deaf = {"@m"}
INVARIANTS RevocationTakesEffect EveryCheckHasItsRequest
PROPERTIES StopsOnSignal MonitorRecovers ManagersAreRefreshed
CHECK_DEADLOCK FALSE
