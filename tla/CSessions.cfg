SPECIFICATION FairSpec
CONSTANTS
  Pid = {1, 2, 3, 4}
  Key = {"k1", "k3"}
  Request <- Requests2
  OwnerOf <- Owner2
  Advert <- Adverts
  Flaky = {"k1"}
  Policy <- Policies
  PermitOpen <- SshOnly
  LocalSshdPort = 22
  MaxTimeoutSecs = 86400
  RequireEnrollmentSignature = FALSE
  Interval = 1
  StartTimeout = 1
  Overrun = 1
  MaxChecks = 2
  MaxChecksPerAtSign = 1
  Moves <- Moves2
  MaxMoves = 1
INVARIANTS NoStraySignal SignedIffWatched EndedOnlyIfWithdrawn ChecksAreCounted StartsAreWatched SrvAcceptsWhatItIsGiven
PROPERTIES WithdrawnEndsSession
CHECK_DEADLOCK FALSE
