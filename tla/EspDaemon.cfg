SPECIFICATION FairSpec
CONSTANTS
  Option <- Options
  DecryptPause = 2
  KeepAlive = 2
  ReadsToNoop = 3
  MaxFailures = 3
PROPERTIES MonitorRecovers WorkerRecovers
CHECK_DEADLOCK FALSE
