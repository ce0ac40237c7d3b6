SPECIFICATION FairVerifierSpec
CONSTANTS
  c1 = c1
  c2 = c2
  NoConnection = NoConnection
  Connections <- TwoConnections
  LineLength = 2
  StreamLength = 4
  MaxBuffer = 3
  MaxHints = 1
  PeerChoices <- OneOrTwo
INVARIANTS StreamIsIntact
CHECK_DEADLOCK FALSE
